---- MODULE Spec2Model ----
(***************************************************************************)
(* The 3D scene components of the portfolio: EarthProject                  *)
(* (src/unnamed/part_000) and Laptop / LaptopDevice (src/unnamed/part_001).*)
(*                                                                         *)
(* One behaviour follows one mount of one scene component: it is created,  *)
(* mounted, receives prop changes, load completions, frames and input      *)
(* events, and is unmounted; asset loads started during the mount may      *)
(* still complete after the unmount.                                       *)
(*                                                                         *)
(* A React state update made by a handler, the re-render it causes and the *)
(* effects (cleanup, then body) of that re-render are one step of the      *)
(* model, as is the continuation of an async function after an await up to *)
(* its next await on a load.                                               *)
(***************************************************************************)
EXTENDS Integers, Sequences, FiniteSets, TLC

\* Load invocations (runs of the load effect that start loads) per mount.
MaxRuns == 2
\* Animation-frame callbacks that can be pending at the same time.
MaxPending == 2

VARIABLES
    comp,          \* which scene component the page hosts: "earth" | "laptop"
    phase,         \* "init" (rendered, effects not yet run) | "mounted" | "unmounted"
    loaded,        \* React state `loaded`
    inViewport,    \* value of useInViewport
    reduceMotion,  \* value of useReducedMotion
    created,       \* GPU resources this instance has created
    disposed,      \* GPU resources on which dispose() has been called
    releaseLog,    \* the steps of the unmount cleanup, in execution order
    setLoadedCalls,\* number of setLoaded(true) calls in this mount
    onLoadCalls,   \* number of onLoad() calls in this mount
    mainDrawn,     \* some renderer.render(scene, camera) has been issued
    drewHidden,    \* ... and one of them while inViewport was false
    lateEffects,   \* what load completions did after the unmount
    rendererUse,   \* a renderer method has been called after the renderer was disposed
    hostSize,      \* << width, height >> of the window (useWindowSize), of the container in Laptop
    view,          \* renderer size, camera.aspect and controls.enabled
    asset,         \* the glTF file the model loader decodes: its named nodes
    \* ---- EarthProject ----
    mountedRef,    \* mounted.current
    eRuns,         \* the handleLoad invocations and their loads
    sceneModel,    \* sceneModel.current: the run whose gltf.scene it holds, 0 = unset
    envMap,        \* envMap.current: the run whose PMREM target it holds, 0 = unset
    mixer,         \* mixer.current: the run whose model it animates, 0 = unset
    inScene,       \* models added to scene.current
    envOn,         \* model -> environment map set on its materials (0 = none)
    lightsInScene, \* the light rig is attached to the scene
    clipPlaying,   \* the mixer's clip action has been started
    raf,           \* pending requestAnimationFrame callbacks and animationFrame.current
    showCutaway,   \* React state `showCutaway`
    clickOdd,      \* an odd number of clicks has reached a loaded canvas
    vis,           \* model -> named node -> its `visible` flag
    camera,        \* camera.current.position, in hundredths
    drawnMixed,    \* a frame was drawn with meshes and camera not in one preset
    frameLog,      \* the calls of the last renderFrame that drew, in execution order
    loaderVisible, \* React state `loaderVisible`
    pendingTimers, \* pending setTimeout callbacks of the load effect
    controlsOn,    \* the OrbitControls input listeners are attached to the canvas
    clickListener, \* the canvas click listener is attached
    ignoredClick,  \* the last click on the canvas found `loaded` false
    \* ---- Laptop / LaptopDevice ----
    show,          \* prop `show`
    texture,       \* prop `texture`: "none" | "plain" | "placeholder"
    lRuns,         \* the onModelLoad invocations and what each has started
    inGroup,       \* models added to modelGroup.current
    springSub,     \* rotation springs whose 'change' event calls renderFrame
    springActive,  \* a rotation spring is moving towards its target
    springTarget,  \* targets of rotationX and rotationY, in radians
    mouseListener, \* the window mousemove listener is attached
    resizeListener,\* the window resize listener is attached
    pipe,          \* shadow pipeline state and the draws of the last renderFrame
    now,           \* the value of `new Date()`, in ms
    lastTime,      \* `lastTime` of the throttle wrapper the mousemove effect built
    pointerCalled, \* that wrapper has been called
    forwardedAt,   \* the times of the last two calls it made to its `func`
    frameCalls     \* renderFrame calls made by the last pointer event or spring notification

vars == << comp, phase, loaded, inViewport, reduceMotion, created, disposed,
           releaseLog, setLoadedCalls, onLoadCalls, mainDrawn, drewHidden,
           lateEffects, rendererUse, hostSize, view, asset, mountedRef, eRuns, sceneModel, envMap, mixer,
           inScene, envOn, lightsInScene, clipPlaying, raf, showCutaway, clickOdd, vis,
           camera, drawnMixed, frameLog, loaderVisible, pendingTimers, controlsOn,
           clickListener, ignoredClick, show, texture, lRuns,
           inGroup, springSub, springActive, springTarget, mouseListener,
           resizeListener, pipe, now, lastTime, pointerCalled, forwardedAt,
           frameCalls >>

laptopVars == << show, texture, lRuns, inGroup, springSub, springActive,
                 springTarget, mouseListener, resizeListener, pipe,
                 now, lastTime, pointerCalled, forwardedAt, frameCalls >>

\* The throttle wrapper of the mousemove effect and the calls it forwarded.
throttleVars == << lastTime, pointerCalled, forwardedAt >>

earthVars == << mountedRef, eRuns, sceneModel, envMap, mixer, inScene, envOn,
                lightsInScene, clipPlaying, raf, showCutaway, clickOdd, vis, camera,
                drawnMixed, frameLog, loaderVisible, pendingTimers, controlsOn,
                clickListener, ignoredClick >>

\* What the resize handlers read and write.
sizeVars == << hostSize, view >>

\* What the click handler writes.
clickVars == << showCutaway, clickOdd, vis, camera >>

\* The loader overlay and its timers, and the listeners on the canvas.
attachVars == << loaderVisible, pendingTimers, controlsOn, clickListener >>

RunIds == 1..MaxRuns

Res(kind, i) == << kind, i >>

RendererDisposed == Res("renderer", 0) \in disposed

(***************************************************************************)
(* requestAnimationFrame / cancelAnimationFrame.  raf.q holds the closures *)
(* of the pending callbacks (the inViewport and loaded values renderFrame  *)
(* captured); raf.cur is the position in q of the callback whose id is in  *)
(* animationFrame.current, 0 when that id is not pending.                  *)
(***************************************************************************)
RemoveAt(s, k) == [j \in 1..(Len(s) - 1) |-> IF j < k THEN s[j] ELSE s[j + 1]]

\* Mutant of cancelAnimationFrame: the pending callback is not cancelled.
CancelNothing(r) == r

cancelAnimationFrame(r) ==
    IF r.cur = 0 THEN r ELSE [q |-> RemoveAt(r.q, r.cur), cur |-> 0]

requestAnimationFrame(r, c) ==
    [q |-> Append(r.q, c), cur |-> Len(r.q) + 1]

\* Mutant of EarthFrameSteps: the next callback is requested after the draw.
EarthFrameStepsDrawFirst ==
    << "clock.getDelta", "mixer.update", "controls.update", "renderer.render",
       "requestAnimationFrame" >>

\* The calls of EarthProject.renderFrame past its guard, in source order.
EarthFrameSteps ==
    << "requestAnimationFrame", "clock.getDelta", "mixer.update",
       "controls.update", "renderer.render" >>

\* EarthProject.renderFrame, a closure over (inViewport, loaded) = (c.inV, c.ld).
\* Returns the new raf state and whether the frame body (update and draw) ran.
EarthRenderFrame(r, c) ==
    IF ~c.inV \/ ~c.ld
    THEN [raf |-> cancelAnimationFrame(r), drew |-> FALSE]
    ELSE [raf |-> requestAnimationFrame(r, c), drew |-> TRUE]

\* Mutant of RenderLoopEffect: the loop is started on visibility alone and
\* draws whatever `loaded` is.
RenderLoopEffectUngated(r, inV, ld) ==
    LET cleaned == cancelAnimationFrame(r)
    IN  IF inV
        THEN [raf |-> requestAnimationFrame(cleaned, [inV |-> inV, ld |-> TRUE]),
              drew |-> TRUE]
        ELSE [raf |-> cleaned, drew |-> FALSE]

\* Mutant of RenderLoopEffect: the effect returns no cleanup.
RenderLoopEffectNoCleanup(r, inV, ld) ==
    IF ld /\ inV
    THEN EarthRenderFrame(r, [inV |-> inV, ld |-> ld])
    ELSE [raf |-> r, drew |-> FALSE]

\* Mutant of RenderLoopEffect: the effect never calls renderFrame().
RenderLoopEffectIdle(r, inV, ld) ==
    [raf |-> cancelAnimationFrame(r), drew |-> FALSE]

\* Mutant of RenderLoopEffect: the loop runs whenever loaded is true, in the
\* viewport or not.
RenderLoopEffectUnseen(r, inV, ld) ==
    LET cleaned == cancelAnimationFrame(r)
    IN  IF ld
        THEN [raf |-> requestAnimationFrame(cleaned, [inV |-> TRUE, ld |-> ld]),
              drew |-> TRUE]
        ELSE [raf |-> cleaned, drew |-> FALSE]

\* The render-loop effect after a change of its dependencies: the cleanup of
\* the previous run, then the body with the new inViewport and loaded.
RenderLoopEffect(r, inV, ld) ==
    LET cleaned == cancelAnimationFrame(r)
    IN  IF ld /\ inV
        THEN EarthRenderFrame(cleaned, [inV |-> inV, ld |-> ld])
        ELSE [raf |-> cleaned, drew |-> FALSE]

(***************************************************************************)
(* Resize.  Sizes are << width, height >> in CSS pixels.                   *)
(***************************************************************************)
\* The sizes the window, and Laptop's container, take.
Sizes == {<< 0, 0 >>, << 480, 0 >>, << 480, 640 >>, << 768, 1024 >>,
          << 1024, 768 >>, << 1536, 1152 >>}

\* The size at the first render.
DefaultSize == << 1024, 768 >>

\* container.current is null.
Absent == << >>

RECURSIVE Gcd(_, _)
Gcd(a, b) == IF b = 0 THEN a ELSE Gcd(b, a % b)

\* width / height as the ratio in lowest terms.  JavaScript raises no error
\* for a zero height: it gives Infinity, here << 1, 0 >>, and NaN for 0 / 0,
\* here << 0, 0 >>.
Aspect(sz) ==
    LET g == Gcd(sz[1], sz[2])
    IN  IF g = 0 THEN << 0, 0 >> ELSE << sz[1] \div g, sz[2] \div g >>

\* Before the mount effect has created renderer, camera and controls.
InitialView == [size |-> << >>, aspect |-> << >>, enabled |-> TRUE]

\* Mutant of handleResize: the aspect is computed from the size the renderer
\* had before the call.
handleResizeStale(v, c) ==
    IF c = Absent THEN v
    ELSE [v EXCEPT !.size = c,
                   !.aspect = IF v.size = << >> THEN Aspect(c) ELSE Aspect(v.size)]

\* Laptop.handleResize, c being container.current's clientWidth and
\* clientHeight: renderer.setSize, camera.aspect (renderFrame() is the
\* caller's part).
handleResize(v, c) ==
    IF c = Absent THEN v
    ELSE [v EXCEPT !.size = c, !.aspect = Aspect(c)]

\* EarthProject's effects on [windowWidth] and [windowWidth, windowHeight]:
\* controls.enabled, renderer.setSize, camera.aspect.
EarthResizeEffect(v, w) ==
    [size |-> w, aspect |-> Aspect(w), enabled |-> ~(w[1] <= 768)]

(***************************************************************************)
(* GPU resources and the unmount cleanup.                                  *)
(***************************************************************************)
\* What the scene graph owns: the geometries and materials of the models added
\* to scene.current and the environment-map textures set on their materials.
EarthSceneResources ==
    {Res("model", m) : m \in inScene}
        \cup {Res("envMap", envOn[m]) : m \in {x \in inScene : envOn[x] # 0}}

\* What the Laptop scene graph owns: the shadow plane, blur plane and fill plane
\* meshes (one shared geometry, each mesh's current material), and every model
\* added to modelGroup with the overlay clone and the textures set on them.
LaptopSceneResources ==
    {Res("planeGeometry", 0), Res("planeMaterial", 0), Res("fillMaterial", 0),
     Res(pipe.planeMat, 0)}
        \cup {Res("model", r) : r \in inGroup}
        \cup {Res("placeholderMaterial", r) :
                r \in {x \in inGroup : lRuns[x].tex # "none"
                                        /\ "Screen" \in asset.nodes}}
        \cup {Res("placeholderTexture", r) :
                r \in {x \in inGroup : lRuns[x].ph = "applied"}}
        \cup {Res("fullTexture", r) :
                r \in {x \in inGroup : lRuns[x].full \in {"fading", "done"}}}

SceneResources ==
    IF comp = "earth" THEN EarthSceneResources ELSE LaptopSceneResources

\* removeLights(lights): detaches every light from its parent.
removeLights(st) == [st EXCEPT !.lights = FALSE]

\* cleanScene(scene): disposes every geometry, material and texture owned by
\* the scene graph.
cleanScene(st) == [st EXCEPT !.disposed = @ \cup SceneResources]

\* cleanRenderer(renderer): disposes the renderer.
cleanRenderer(st) == [st EXCEPT !.disposed = @ \cup {Res("renderer", 0)}]

\* Mutant of ReleaseNeeds: cleanScene is handed sceneModel.current, a product
\* of the model load, instead of scene.current.
ReleaseNeedsModel(name) ==
    IF name = "cleanScene" THEN {Res("model", 1)} ELSE {}

\* The objects a statement of an unmount cleanup dereferences (the `.current`
\* of a ref whose method it calls or that it hands to a helper) among those
\* the instance creates; scene.current and the lights are set by the mount
\* effect itself, and cancelAnimationFrame takes any value, undefined included.
ReleaseNeeds(name) ==
    CASE name = "renderTarget.dispose" -> {Res("renderTarget", 0)}
      [] name = "renderTargetBlur.dispose" -> {Res("renderTargetBlur", 0)}
      [] name = "cleanRenderer" -> {Res("renderer", 0)}
      [] OTHER -> {}

\* One statement of an unmount cleanup.
ReleaseStep(name, st) ==
    CASE name = "cancelAnimationFrame" ->
            [st EXCEPT !.raf = cancelAnimationFrame(@)]
      [] name = "removeLights" -> removeLights(st)
      [] name = "cleanScene" -> cleanScene(st)
      [] name = "cleanRenderer" -> cleanRenderer(st)
      [] name = "renderTarget.dispose" ->
            [st EXCEPT !.disposed = @ \cup {Res("renderTarget", 0)}]
      [] name = "renderTargetBlur.dispose" ->
            [st EXCEPT !.disposed = @ \cup {Res("renderTargetBlur", 0)}]
      [] name = "unsubscribeX" -> [st EXCEPT !.subs = @ \ {"x"}]
      [] name = "unsubscribeY" -> [st EXCEPT !.subs = @ \ {"y"}]

RECURSIVE ApplyRelease(_, _)
ApplyRelease(steps, st) ==
    IF steps = << >> THEN st
    ELSE ApplyRelease(Tail(steps), ReleaseStep(Head(steps), st))

\* The cleanup returned by EarthProject's mount effect, after mounted.current = false.
EarthReleaseSteps ==
    << "cancelAnimationFrame", "removeLights", "cleanScene", "cleanRenderer" >>

(***************************************************************************)
(* EarthProject: named mesh groups and the camera.                         *)
(***************************************************************************)
EarthNames == {"EarthFull", "Atmosphere", "EarthPartial", "Chunk"}

\* Object3D.visible of every node of a freshly decoded model.
AuthoredVisibility == [n \in asset.nodes |-> TRUE]

\* loadModel's second traversal: "Set initial mesh visibility".
SetInitialVisibility(v) ==
    [n \in DOMAIN v |->
        IF n = "Chunk" \/ n = "EarthPartial" THEN FALSE
        ELSE IF n = "EarthFull" \/ n = "Atmosphere" THEN TRUE
        ELSE v[n]]

\* Mutant of UpdateMeshVisibility: the traversal shows the cutaway whatever
\* showCutaway is.
UpdateMeshVisibilityOneWay(v, sc) ==
    [n \in DOMAIN v |->
        IF n = "EarthPartial" \/ n = "Chunk" THEN TRUE
        ELSE IF n = "EarthFull" THEN FALSE
        ELSE v[n]]

\* handleClick's traversal, sc being the showCutaway the handler closed over.
UpdateMeshVisibility(v, sc) ==
    [n \in DOMAIN v |->
        IF sc
        THEN IF n = "EarthFull" \/ n = "Atmosphere" THEN TRUE
             ELSE IF n = "Chunk" \/ n = "EarthPartial" THEN FALSE
             ELSE v[n]
        ELSE IF n = "EarthPartial" \/ n = "Chunk" THEN TRUE
             ELSE IF n = "EarthFull" THEN FALSE
             ELSE v[n]]

\* camera.current.position.set(0, 0, 2.6) and (0.37, 1.02, 1.84), in hundredths.
CameraFull == << 0, 0, 260 >>
CameraCutaway == << 37, 102, 184 >>

\* Mutant of ClickReturnsEarly: handleClick has no `loaded` guard.
ClickNeverReturnsEarly(ld) == FALSE

\* handleClick's first statement, `if (!loaded) return;`, ld being the
\* `loaded` the handler closed over.
ClickReturnsEarly(ld) == ~ld

\* handleClick past its `loaded` guard, as a closure over showCutaway = sc:
\* the value it passes to setShowCutaway, and what it leaves of the node
\* visibilities v of sceneModel.current and of the camera position.
handleClick(sc, v, cam) ==
    [showCutaway |-> ~sc,
     vis |-> UpdateMeshVisibility(v, sc),
     camera |-> IF sc THEN CameraFull ELSE CameraCutaway]

\* The two presets: what a click leaves behind on a freshly loaded model.
EarthFullPreset == UpdateMeshVisibility(SetInitialVisibility(AuthoredVisibility), TRUE)
EarthCutawayPreset == UpdateMeshVisibility(SetInitialVisibility(AuthoredVisibility), FALSE)

\* controls.current.update(): with autoRotate on, OrbitControls turns the
\* camera about the vertical axis through its target, the origin, by a small
\* angle on every call; it keeps the camera's height and its distance from
\* the target (zoom and pan are disabled).  The model takes a quarter turn for
\* the turns of successive frames.
ControlsUpdate(cam) == << cam[3], cam[2], -cam[1] >>

\* The square of the distance of the camera from the target.
Dist2(cam) == cam[1] * cam[1] + cam[2] * cam[2] + cam[3] * cam[3]

\* The camera stands where the controls can have taken it from position pos.
OnOrbitOf(cam, pos) == cam[2] = pos[2] /\ Dist2(cam) = Dist2(pos)

\* Every model of the scene graph scn shows the preset the camera stands at.
ViewConsistent(scn, v, cam) ==
    \/ OnOrbitOf(cam, CameraFull) /\ \A m \in scn : v[m] = EarthFullPreset
    \/ OnOrbitOf(cam, CameraCutaway) /\ \A m \in scn : v[m] = EarthCutawayPreset

(***************************************************************************)
(* EarthProject: the load effect.                                          *)
(***************************************************************************)
\* The load effect's body when loaded is false: a PMREMGenerator is created and
\* handleLoad() starts loadBackground (which has no await and is resolved at
\* once), loadEnv and loadModel.
NewEarthRun ==
    [bg |-> "resolved", env |-> "pending", model |-> "pending", done |-> "waiting"]

\* Mutant of JoinReady: a race instead of a join.
JoinAny(run) ==
    run.bg = "resolved" /\ (run.env = "resolved" \/ run.model = "resolved")

\* Promise.all([loadBackground(), loadEnv(), loadModel()]) has resolved.
JoinReady(run) ==
    run.bg = "resolved" /\ run.env = "resolved" /\ run.model = "resolved"

\* Mutant of MixerAfterLoad: loadModel creates no AnimationMixer.
MixerNeverCreated(which, i, mx) == mx

\* mixer.current after load `which` of invocation i has resolved: loadModel
\* assigns `new AnimationMixer(sceneModel.current)`, loadEnv leaves it alone.
MixerAfterLoad(which, i, mx) == IF which = "model" THEN i ELSE mx

\* The liveness guard of handleLoad: setLoaded(true) and onLoad() run only here.
MayReveal == mountedRef

EarthMount ==
    /\ comp = "earth" /\ phase = "init"
    /\ phase' = "mounted"
    /\ mountedRef' = TRUE
    /\ lightsInScene' = TRUE
    /\ created' = created \cup {Res("renderer", 0), Res("pmrem", 1)}
    /\ eRuns' = << NewEarthRun >>
    /\ UNCHANGED ignoredClick
    /\ pendingTimers' = 1
    /\ controlsOn' = TRUE
    /\ clickListener' = TRUE
    /\ UNCHANGED loaderVisible
    /\ view' = EarthResizeEffect(view, hostSize)
    /\ UNCHANGED hostSize
    /\ UNCHANGED laptopVars
    /\ UNCHANGED << clickVars, drawnMixed, frameLog >>
    /\ UNCHANGED << comp, asset, loaded, inViewport, reduceMotion, disposed, releaseLog,
                    setLoadedCalls, onLoadCalls, mainDrawn, drewHidden, lateEffects,
                    rendererUse, sceneModel, envMap, mixer, inScene, envOn,
                    clipPlaying, raf >>

\* The onLoad prop changes identity: the load effect ([loaded, onLoad]) runs
\* again; it has no cleanup, and returns at once when loaded is true.
EarthChangeOnLoad ==
    /\ comp = "earth" /\ phase = "mounted"
    /\ loaded \/ Len(eRuns) < MaxRuns
    /\ IF loaded
       THEN UNCHANGED << eRuns, created, pendingTimers >>
       ELSE /\ eRuns' = Append(eRuns, NewEarthRun)
            /\ created' = created \cup {Res("pmrem", Len(eRuns) + 1)}
            /\ pendingTimers' = pendingTimers + 1
    /\ UNCHANGED << loaderVisible, controlsOn, clickListener, ignoredClick >>
    /\ UNCHANGED laptopVars
    /\ UNCHANGED sizeVars
    /\ UNCHANGED << clickVars, drawnMixed, frameLog >>
    /\ UNCHANGED << comp, asset, phase, loaded, inViewport, reduceMotion, disposed,
                    releaseLog, setLoadedCalls, onLoadCalls, mainDrawn, drewHidden,
                    lateEffects, rendererUse, mountedRef, sceneModel, envMap,
                    mixer, inScene, envOn, lightsInScene, clipPlaying, raf >>

\* One of the loads of run i resolves: the rest of loadEnv or loadModel runs,
\* and when this completes the join, the rest of handleLoad.
EarthLoadResolved(i, which) ==
    LET runs1 == [eRuns EXCEPT ![i][which] = "resolved"]
        sm == IF which = "model" THEN i ELSE sceneModel
        em == IF which = "env" THEN i ELSE envMap
        join == runs1[i].done = "waiting" /\ JoinReady(runs1[i])
        throws == join /\ (sm = 0 \/ em = 0)
        cont == join /\ ~throws
        reveal == cont /\ MayReveal
        loop == IF reveal /\ ~loaded
                THEN RenderLoopEffect(raf, inViewport, TRUE)
                ELSE [raf |-> raf, drew |-> FALSE]
        late == phase = "unmounted"
    IN  /\ comp = "earth"
        /\ i \in 1..Len(eRuns)
        /\ eRuns[i][which] = "pending"
        /\ Len(loop.raf.q) <= MaxPending
        /\ eRuns' = [runs1 EXCEPT ![i].done =
                        IF cont THEN "done" ELSE IF throws THEN "failed" ELSE @]
        /\ sceneModel' = sm
        /\ envMap' = em
        /\ mixer' = MixerAfterLoad(which, i, mixer)
        /\ created' = created \cup
              (IF which = "model" THEN {Res("model", i)}
               ELSE {Res("hdr", i), Res("envMap", i)})
        /\ disposed' = disposed \cup
              (IF which = "env" THEN {Res("pmrem", i)} ELSE {})
        /\ envOn' = IF cont THEN [envOn EXCEPT ![sm] = em] ELSE envOn
        /\ inScene' = IF cont THEN inScene \cup {sm} ELSE inScene
        /\ clipPlaying' = (clipPlaying \/ cont)
        /\ loaded' = (loaded \/ reveal)
        /\ setLoadedCalls' = setLoadedCalls + (IF reveal THEN 1 ELSE 0)
        /\ onLoadCalls' = onLoadCalls + (IF reveal THEN 1 ELSE 0)
        /\ raf' = loop.raf
        /\ mainDrawn' = (mainDrawn \/ loop.drew)
        /\ drewHidden' = (drewHidden \/ (loop.drew /\ ~inViewport))
        /\ rendererUse' = (rendererUse \/ RendererDisposed)
        /\ lateEffects' = lateEffects \cup
              (IF late THEN {"gpu"} ELSE {}) \cup
              (IF late /\ cont THEN {"sceneMutation", "animation"} ELSE {}) \cup
              (IF late /\ reveal THEN {"setState"} ELSE {})
        /\ vis' = IF which = "model"
                  THEN [vis EXCEPT ![i] = SetInitialVisibility(AuthoredVisibility)]
                  ELSE vis
        /\ camera' = IF loop.drew THEN ControlsUpdate(camera) ELSE camera
        /\ drawnMixed' =
              (drawnMixed \/ (loop.drew /\ ~ViewConsistent(inScene', vis', camera')))
        /\ frameLog' = IF loop.drew THEN EarthFrameSteps ELSE frameLog
        /\ UNCHANGED << showCutaway, clickOdd >>
        /\ UNCHANGED laptopVars
        /\ UNCHANGED sizeVars
        /\ UNCHANGED attachVars
        /\ UNCHANGED ignoredClick
        /\ UNCHANGED << comp, asset, phase, inViewport, reduceMotion, releaseLog,
                        mountedRef, lightsInScene >>

\* One of the loads of run i rejects: Promise.all rejects, and so does handleLoad.
EarthLoadRejected(i, which) ==
    /\ comp = "earth"
    /\ i \in 1..Len(eRuns)
    /\ eRuns[i][which] = "pending"
    /\ eRuns' = [eRuns EXCEPT ![i][which] = "rejected",
                              ![i].done = IF @ = "waiting" THEN "failed" ELSE @]
    /\ UNCHANGED laptopVars
    /\ UNCHANGED sizeVars
    /\ UNCHANGED attachVars
    /\ UNCHANGED ignoredClick
    /\ UNCHANGED << clickVars, drawnMixed, frameLog >>
    /\ UNCHANGED << comp, asset, phase, loaded, inViewport, reduceMotion, created,
                    disposed, releaseLog, setLoadedCalls, onLoadCalls, mainDrawn, drewHidden,
                    lateEffects, rendererUse, mountedRef, sceneModel, envMap,
                    mixer, inScene, envOn, lightsInScene, clipPlaying, raf >>

(***************************************************************************)
(* EarthProject: the render loop.                                          *)
(***************************************************************************)
\* The intersection observer reports a new visibility: the render-loop effect
\* ([renderFrame, inViewport, loaded]) is cleaned up and runs again.
EarthSetInViewport(v) ==
    LET loop == RenderLoopEffect(raf, v, loaded)
    IN  /\ comp = "earth" /\ phase = "mounted"
        /\ v # inViewport
        /\ Len(loop.raf.q) <= MaxPending
        /\ inViewport' = v
        /\ raf' = loop.raf
        /\ mainDrawn' = (mainDrawn \/ loop.drew)
        /\ drewHidden' = (drewHidden \/ (loop.drew /\ ~v))
        /\ camera' = IF loop.drew THEN ControlsUpdate(camera) ELSE camera
        /\ drawnMixed' =
              (drawnMixed \/ (loop.drew /\ ~ViewConsistent(inScene, vis, camera')))
        /\ frameLog' = IF loop.drew THEN EarthFrameSteps ELSE frameLog
        /\ UNCHANGED << showCutaway, clickOdd, vis >>
        /\ UNCHANGED laptopVars
        /\ UNCHANGED sizeVars
        /\ UNCHANGED attachVars
        /\ UNCHANGED ignoredClick
        /\ UNCHANGED << comp, asset, phase, loaded, reduceMotion, created, disposed,
                        releaseLog, setLoadedCalls, onLoadCalls, lateEffects,
                        rendererUse, mountedRef, eRuns, sceneModel, envMap,
                        mixer, inScene, envOn, lightsInScene, clipPlaying >>

\* The browser runs the pending animation-frame callback at position k.
EarthFrame(k) ==
    LET c == raf.q[k]
        fired == [q |-> RemoveAt(raf.q, k),
                  cur |-> IF raf.cur = k THEN 0
                          ELSE IF raf.cur > k THEN raf.cur - 1 ELSE raf.cur]
        out == EarthRenderFrame(fired, c)
    IN  /\ comp = "earth"
        /\ k \in 1..Len(raf.q)
        /\ Len(out.raf.q) <= MaxPending
        /\ raf' = out.raf
        /\ mainDrawn' = (mainDrawn \/ out.drew)
        /\ drewHidden' = (drewHidden \/ (out.drew /\ ~inViewport))
        /\ rendererUse' = (rendererUse \/ (out.drew /\ RendererDisposed))
        /\ camera' = IF out.drew THEN ControlsUpdate(camera) ELSE camera
        /\ drawnMixed' =
              (drawnMixed \/ (out.drew /\ ~ViewConsistent(inScene, vis, camera')))
        /\ frameLog' = IF out.drew THEN EarthFrameSteps ELSE frameLog
        /\ UNCHANGED << showCutaway, clickOdd, vis >>
        /\ UNCHANGED laptopVars
        /\ UNCHANGED sizeVars
        /\ UNCHANGED attachVars
        /\ UNCHANGED ignoredClick
        /\ UNCHANGED << comp, asset, phase, loaded, inViewport, reduceMotion, created,
                        disposed, releaseLog, setLoadedCalls, onLoadCalls,
                        lateEffects, mountedRef, eRuns, sceneModel, envMap,
                        mixer, inScene, envOn, lightsInScene, clipPlaying >>

\* Unmount: the mount effect's cleanup, then the render-loop effect's cleanup.
EarthUnmount ==
    LET st0 == [raf |-> raf, lights |-> lightsInScene, disposed |-> disposed,
                subs |-> springSub]
        st1 == ApplyRelease(EarthReleaseSteps, st0)
    IN  /\ comp = "earth" /\ phase = "mounted"
        /\ phase' = "unmounted"
        /\ mountedRef' = FALSE
        /\ releaseLog' = EarthReleaseSteps
        /\ raf' = cancelAnimationFrame(st1.raf)
        /\ lightsInScene' = st1.lights
        /\ disposed' = st1.disposed
        /\ UNCHANGED ignoredClick
        /\ clickListener' = FALSE
        /\ UNCHANGED << loaderVisible, pendingTimers, controlsOn >>
        /\ UNCHANGED laptopVars
        /\ UNCHANGED sizeVars
        /\ UNCHANGED << clickVars, drawnMixed, frameLog >>
        /\ UNCHANGED << comp, asset, loaded, inViewport, reduceMotion, created,
                        setLoadedCalls, onLoadCalls, mainDrawn, drewHidden, lateEffects,
                        rendererUse, eRuns, sceneModel, envMap, mixer, inScene,
                        envOn, clipPlaying >>

\* Mutant of EarthClick: the click also sends the scene back to "not loaded".
EarthClickReloads ==
    /\ comp = "earth" /\ phase = "mounted"
    /\ loaded
    /\ loaded' = FALSE
    /\ showCutaway' = ~showCutaway
    /\ clickOdd' = ~clickOdd
    /\ ignoredClick' = FALSE
    /\ vis' = [vis EXCEPT ![sceneModel] = UpdateMeshVisibility(@, showCutaway)]
    /\ camera' = IF showCutaway THEN CameraFull ELSE CameraCutaway
    /\ UNCHANGED laptopVars
    /\ UNCHANGED sizeVars
    /\ UNCHANGED attachVars
    /\ UNCHANGED << comp, asset, phase, inViewport, reduceMotion, created,
                    disposed, releaseLog, setLoadedCalls, onLoadCalls, mainDrawn, drewHidden,
                    lateEffects, rendererUse, mountedRef, eRuns, sceneModel,
                    envMap, mixer, inScene, envOn, lightsInScene, clipPlaying,
                    raf, drawnMixed, frameLog >>

\* A click on the canvas reaches handleClick, a closure over the loaded and
\* showCutaway of the last render: the handler returns at once when loaded is
\* false, and else toggles showCutaway, sets the visibility of the named
\* nodes of sceneModel.current and moves the camera.  Were sceneModel.current
\* still undefined past the guard, the call of its traverse would raise a
\* TypeError after setShowCutaway and before the camera is moved.
EarthClick ==
    /\ comp = "earth" /\ phase = "mounted"
    /\ clickListener
    /\ ignoredClick' = ~loaded
    /\ IF ClickReturnsEarly(loaded)
       THEN UNCHANGED clickVars
       ELSE IF sceneModel = 0
       THEN /\ showCutaway' = ~showCutaway
            /\ clickOdd' = ~clickOdd
            /\ UNCHANGED << vis, camera >>
       ELSE LET out == handleClick(showCutaway, vis[sceneModel], camera)
            IN  /\ showCutaway' = out.showCutaway
                /\ clickOdd' = ~clickOdd
                /\ vis' = [vis EXCEPT ![sceneModel] = out.vis]
                /\ camera' = out.camera
    /\ UNCHANGED laptopVars
    /\ UNCHANGED sizeVars
    /\ UNCHANGED attachVars
    /\ UNCHANGED << comp, asset, phase, loaded, inViewport, reduceMotion, created,
                    disposed, releaseLog, setLoadedCalls, onLoadCalls, mainDrawn, drewHidden,
                    lateEffects, rendererUse, mountedRef, eRuns, sceneModel,
                    envMap, mixer, inScene, envOn, lightsInScene, clipPlaying,
                    raf, drawnMixed, frameLog >>

\* Two click events are dispatched to the canvas with no commit between them
\* (canvas.click() twice in one task, or two events handled before React has
\* re-rendered): both reach the same handleClick closure, with the same
\* loaded and showCutaway.  Both call setShowCutaway(!showCutaway) with the
\* same value, traverse the model the same way and set the same camera
\* position; then the component re-renders and re-attaches its handler.
EarthDoubleClick ==
    /\ comp = "earth" /\ phase = "mounted"
    /\ clickListener
    /\ ignoredClick' = ~loaded
    /\ IF ClickReturnsEarly(loaded)
       THEN UNCHANGED clickVars
       ELSE IF sceneModel = 0
       THEN /\ showCutaway' = ~showCutaway
            /\ UNCHANGED << clickOdd, vis, camera >>
       ELSE LET first == handleClick(showCutaway, vis[sceneModel], camera)
                out == handleClick(showCutaway, first.vis, first.camera)
            IN  /\ showCutaway' = out.showCutaway
                /\ UNCHANGED clickOdd
                /\ vis' = [vis EXCEPT ![sceneModel] = out.vis]
                /\ camera' = out.camera
    /\ UNCHANGED attachVars
    /\ UNCHANGED laptopVars
    /\ UNCHANGED sizeVars
    /\ UNCHANGED << comp, asset, phase, loaded, inViewport, reduceMotion, created,
                    disposed, releaseLog, setLoadedCalls, onLoadCalls, mainDrawn, drewHidden,
                    lateEffects, rendererUse, mountedRef, eRuns, sceneModel,
                    envMap, mixer, inScene, envOn, lightsInScene, clipPlaying,
                    raf, drawnMixed, frameLog >>

\* A timer set by the load effect fires, 1000 ms after that effect ran:
\* setLoaderVisible(true).  No clearTimeout is called anywhere.
EarthLoaderTimer ==
    /\ comp = "earth"
    /\ pendingTimers > 0
    /\ UNCHANGED ignoredClick
    /\ pendingTimers' = pendingTimers - 1
    /\ loaderVisible' = TRUE
    /\ UNCHANGED << controlsOn, clickListener >>
    /\ UNCHANGED laptopVars
    /\ UNCHANGED sizeVars
    /\ UNCHANGED << clickVars, drawnMixed, frameLog >>
    /\ UNCHANGED << comp, asset, phase, loaded, inViewport, reduceMotion, created,
                    disposed, releaseLog, setLoadedCalls, onLoadCalls, mainDrawn, drewHidden,
                    lateEffects, rendererUse, mountedRef, eRuns, sceneModel,
                    envMap, mixer, inScene, envOn, lightsInScene, clipPlaying, raf >>

\* The window takes a new size: useWindowSize re-renders with it, and the two
\* effects that depend on windowWidth and windowHeight run.
EarthWindowResize(w) ==
    /\ comp = "earth" /\ phase = "mounted"
    /\ w # hostSize
    /\ hostSize' = w
    /\ view' = EarthResizeEffect(view, w)
    /\ UNCHANGED attachVars
    /\ UNCHANGED ignoredClick
    /\ UNCHANGED laptopVars
    /\ UNCHANGED << clickVars, drawnMixed, frameLog >>
    /\ UNCHANGED << comp, asset, phase, loaded, inViewport, reduceMotion, created,
                    disposed, releaseLog, setLoadedCalls, onLoadCalls, mainDrawn, drewHidden,
                    lateEffects, rendererUse, mountedRef, eRuns, sceneModel,
                    envMap, mixer, inScene, envOn, lightsInScene, clipPlaying, raf >>

EarthNext ==
    \/ EarthMount
    \/ EarthClick
    \/ EarthDoubleClick
    \/ EarthLoaderTimer
    \/ EarthChangeOnLoad
    \/ \E i \in RunIds, which \in {"env", "model"} : EarthLoadResolved(i, which)
    \/ \E i \in RunIds, which \in {"env", "model"} : EarthLoadRejected(i, which)
    \/ \E v \in BOOLEAN : EarthSetInViewport(v)
    \/ \E k \in 1..MaxPending : EarthFrame(k)
    \/ EarthUnmount

(***************************************************************************)
(* Laptop: the shadow pipeline.  pipe is the state the pipeline leaves      *)
(* behind (render target bound, override material, blur plane material and *)
(* visibility, blur uniforms) and pipe.draws the renderer.render calls of  *)
(* the last renderFrame, each with the state it was issued in.             *)
(***************************************************************************)
\* const blurAmount = 5
BlurAmount == 5
\* const renderTargetSize = 512: the side length of both shadow render targets
RenderTargetSize == 512

\* Mutant of BlurDivisor: the side length of the render targets.
BlurDivisorIsResolution == RenderTargetSize

\* The constant in `amount * (1 / 256)`
BlurDivisor == 256

InitialPipe ==
    [target |-> "screen", override |-> "none", background |-> "null",
     resolution |-> RenderTargetSize,
     planeVisible |-> FALSE, planeMat |-> "blurPlaneMaterial",
     hSrc |-> "none", vSrc |-> "none", h |-> 0, v |-> 0, draws |-> << >>]

setRenderTarget(p, t) == [p EXCEPT !.target = t]

\* planeMaterial.map = renderTarget.current.texture: the ground plane, a
\* child of the scene, samples target A whenever the scene is drawn with its
\* own materials.
PlaneMap == "A"

\* renderer.render(obj, cam): records the draw with the state it is issued in.
Render(p, obj, cam) ==
    [p EXCEPT !.draws = Append(@,
        [obj |-> obj, cam |-> cam, target |-> p.target,
         override |-> p.override, background |-> p.background,
         planeVisible |-> p.planeVisible,
         mat |-> IF obj = "blurPlane" THEN p.planeMat ELSE "scene",
         src |-> IF obj # "blurPlane"
                 THEN (IF p.override = "none" THEN PlaneMap ELSE "none")
                 ELSE IF p.planeMat = "horizontalBlurMaterial" THEN p.hSrc
                 ELSE IF p.planeMat = "verticalBlurMaterial" THEN p.vSrc
                 ELSE "none",
         radius |-> IF obj # "blurPlane" THEN 0
                    ELSE IF p.planeMat = "horizontalBlurMaterial" THEN p.h
                    ELSE IF p.planeMat = "verticalBlurMaterial" THEN p.v
                    ELSE 0,
         divisor |-> BlurDivisor])]

\* Mutant of blurShadow: the vertical pass is drawn before the horizontal one.
blurShadowVerticalFirst(p, amount) ==
    LET p1 == [p EXCEPT !.planeVisible = TRUE]
        p2 == [p1 EXCEPT !.planeMat = "verticalBlurMaterial",
                         !.vSrc = "A", !.v = amount]
        p3 == Render(setRenderTarget(p2, "B"), "blurPlane", "shadow")
        p4 == [p3 EXCEPT !.planeMat = "horizontalBlurMaterial",
                         !.hSrc = "B", !.h = amount]
        p5 == Render(setRenderTarget(p4, "A"), "blurPlane", "shadow")
    IN  [p5 EXCEPT !.planeVisible = FALSE]

\* Mutant of blurShadow: the vertical pass keeps sampling renderTarget.
blurShadowSingleSource(p, amount) ==
    LET p1 == [p EXCEPT !.planeVisible = TRUE]
        p2 == [p1 EXCEPT !.planeMat = "horizontalBlurMaterial",
                         !.hSrc = "A", !.h = amount]
        p3 == Render(setRenderTarget(p2, "B"), "blurPlane", "shadow")
        p4 == [p3 EXCEPT !.planeMat = "verticalBlurMaterial",
                         !.vSrc = "A", !.v = amount]
        p5 == Render(setRenderTarget(p4, "A"), "blurPlane", "shadow")
    IN  [p5 EXCEPT !.planeVisible = FALSE]

\* Laptop.blurShadow(amount); "A" is renderTarget, "B" is renderTargetBlur.
blurShadow(p, amount) ==
    LET p1 == [p EXCEPT !.planeVisible = TRUE]
        p2 == [p1 EXCEPT !.planeMat = "horizontalBlurMaterial",
                         !.hSrc = "A", !.h = amount]
        p3 == Render(setRenderTarget(p2, "B"), "blurPlane", "shadow")
        p4 == [p3 EXCEPT !.planeMat = "verticalBlurMaterial",
                         !.vSrc = "B", !.v = amount]
        p5 == Render(setRenderTarget(p4, "A"), "blurPlane", "shadow")
    IN  [p5 EXCEPT !.planeVisible = FALSE]

\* blurAmount * 0.4
SecondBlurAmount(amount) == (amount * 4) \div 10

\* Mutant of LaptopRenderFrame: the override material and the background are
\* not put back after the depth pass.
LaptopRenderFrameNoRestore(p) ==
    LET p1 == [p EXCEPT !.draws = << >>, !.background = "null",
                        !.override = "depthMaterial"]
        p2 == Render(setRenderTarget(p1, "A"), "scene", "shadow")
        p4 == blurShadow(p2, BlurAmount)
        p5 == blurShadow(p4, SecondBlurAmount(BlurAmount))
        p6 == setRenderTarget(p5, "screen")
    IN  Render(p6, "scene", "main")

\* Laptop.renderFrame
LaptopRenderFrame(p) ==
    LET initialBackground == p.background
        p1 == [p EXCEPT !.draws = << >>, !.background = "null",
                        !.override = "depthMaterial"]
        p2 == Render(setRenderTarget(p1, "A"), "scene", "shadow")
        p3 == [p2 EXCEPT !.override = "none"]
        p4 == blurShadow(p3, BlurAmount)
        p5 == blurShadow(p4, SecondBlurAmount(BlurAmount))
        p6 == [setRenderTarget(p5, "screen") EXCEPT !.background = initialBackground]
    IN  Render(p6, "scene", "main")

\* A renderFrame() call: the draws, and whether the renderer it draws with has
\* already been disposed.
CallRenderFrame ==
    /\ pipe' = LaptopRenderFrame(pipe)
    /\ mainDrawn' = TRUE
    /\ drewHidden' = (drewHidden \/ ~inViewport)
    /\ rendererUse' = (rendererUse \/ RendererDisposed)

(***************************************************************************)
(* Laptop / LaptopDevice: mount, props and the load effect.                *)
(***************************************************************************)
TextureKinds == {"none", "plain", "placeholder"}

\* A mousemove event as onMouseMove reads it: event.clientX, event.clientY and
\* the innerWidth and innerHeight of the window at that moment.
PointerEvent(x, y, w, h) ==
    [clientX |-> x, clientY |-> y, innerWidth |-> w, innerHeight |-> h]

\* The pointer right of and above the window centre.
PointerOffsets == {PointerEvent(900, 300, 1000, 1000)}

\* That event, the corners and the centre of a window, and a pointer that a
\* drag has taken out of the window.
PointerEvents ==
    PointerOffsets \cup
    {PointerEvent(0, 0, 1024, 768), PointerEvent(1024, 768, 1024, 768),
     PointerEvent(512, 384, 1024, 768), PointerEvent(1500, 400, 1000, 800)}

\* The event lies inside the window.
InsideViewport(ev) ==
    /\ 0 <= ev.clientX /\ ev.clientX <= ev.innerWidth
    /\ 0 <= ev.clientY /\ ev.clientY <= ev.innerHeight

\* Numbers are fractions << n, d >> in lowest terms with d > 0.
Abs(i) == IF i < 0 THEN -i ELSE i

Rat(n, d) ==
    LET g == Gcd(Abs(n), Abs(d))
        sg == IF d < 0 THEN -1 ELSE 1
    IN  << (sg * n) \div g, (sg * d) \div g >>

Whole(i) == << i, 1 >>

RatSub(a, b) == Rat(a[1] * b[2] - b[1] * a[2], a[2] * b[2])

RatDiv(a, b) == Rat(a[1] * b[2], a[2] * b[1])

\* The value of the rotation springs before any pointer event.
RestTarget == << Whole(0), Whole(0) >>

\* throttle(func, 100): the time frame of the pointer handler, in ms.
TimeFrame == 100

\* The Date at which a mount starts, in ms since the epoch.
ClockStart == 1000

\* By how much the Date may advance between two events, and up to where.
ClockSteps == {0, 99, 100}

\* How long after the mount starts the model follows the clock, in ms.
MaxElapsed == 200

ClockEnd == ClockStart + MaxElapsed

\* Mutant of throttle: the wrapper never records the time of a forwarded call.
throttleNoRecord(last, t, timeFrame) ==
    [forward |-> t - last >= timeFrame, lastTime |-> last]

\* One call, at Date t, of the function throttle() returns, whose closure
\* holds lastTime = last: whether it calls func, and the new lastTime.
throttle(last, t, timeFrame) ==
    IF t - last >= timeFrame
    THEN [forward |-> TRUE, lastTime |-> t]
    ELSE [forward |-> FALSE, lastTime |-> last]

\* The last two entries of a log, after one more entry.
Logged(log, t) == IF log = << >> THEN << t >> ELSE << log[Len(log)], t >>

\* Mutant of MouseListenerAttached: the listener is attached unconditionally.
MouseListenerAlways(inV, rm) == TRUE

\* The mousemove effect: `if (isInViewport && !reduceMotion) addEventListener`.
MouseListenerAttached(inV, rm) == inV /\ ~rm

\* Mutant of PointerTarget: each spring follows the other axis of the pointer.
PointerTargetSwapped(ev) ==
    LET position ==
            [x |-> RatDiv(RatSub(Whole(ev.clientX),
                                 RatDiv(Whole(ev.innerWidth), Whole(2))),
                          Whole(ev.innerWidth)),
             y |-> RatDiv(RatSub(Whole(ev.clientY),
                                 RatDiv(Whole(ev.innerHeight), Whole(2))),
                          Whole(ev.innerHeight))]
    IN  << RatDiv(position.x, Whole(2)), RatDiv(position.y, Whole(2)) >>

\* onMouseMove: position.x = (event.clientX - innerWidth / 2) / innerWidth,
\* position.y likewise, rotationY.set(position.x / 2),
\* rotationX.set(position.y / 2); the target is << rotationX, rotationY >>.
PointerTarget(ev) ==
    LET position ==
            [x |-> RatDiv(RatSub(Whole(ev.clientX),
                                 RatDiv(Whole(ev.innerWidth), Whole(2))),
                          Whole(ev.innerWidth)),
             y |-> RatDiv(RatSub(Whole(ev.clientY),
                                 RatDiv(Whole(ev.innerHeight), Whole(2))),
                          Whole(ev.innerHeight))]
    IN  << RatDiv(position.y, Whole(2)), RatDiv(position.x, Whole(2)) >>

\* What the Laptop mount effect creates.
LaptopMountResources ==
    {Res("renderer", 0), Res("renderTarget", 0), Res("renderTargetBlur", 0),
     Res("planeGeometry", 0), Res("planeMaterial", 0), Res("blurPlaneMaterial", 0),
     Res("fillMaterial", 0), Res("depthMaterial", 0),
     Res("horizontalBlurMaterial", 0), Res("verticalBlurMaterial", 0)}

\* Mutant of LaptopReleaseSteps: the renderer is disposed before the scene graph.
LaptopReleaseStepsRendererFirst ==
    << "renderTarget.dispose", "renderTargetBlur.dispose", "removeLights",
       "cleanRenderer", "cleanScene", "unsubscribeX", "unsubscribeY" >>

\* The cleanup returned by Laptop's mount effect.
LaptopReleaseSteps ==
    << "renderTarget.dispose", "renderTargetBlur.dispose", "removeLights",
       "cleanScene", "cleanRenderer", "unsubscribeX", "unsubscribeY" >>

\* onModelLoad() is called by the load effect: loadDevice.start() is the `load`
\* closure (over rmLoad and tex), onModelLoad a closure over rmEff.
NewLaptopRun(rmLoad, rmEff, tex) ==
    [model |-> "pending", active |-> TRUE, rmLoad |-> rmLoad, rmEff |-> rmEff,
     tex |-> tex, ph |-> "none", full |-> "none", anim |-> "none"]

\* The load effect's cleanup, `animation?.stop()`: it stops the open animation
\* of the effect run it belongs to, when that run has started one by then.
EffectCleanup(runs) ==
    [r \in 1..Len(runs) |->
        IF runs[r].active
        THEN [runs[r] EXCEPT !.active = FALSE,
                             !.anim = IF @ = "playing" THEN "stopped" ELSE @]
        ELSE runs[r]]

\* The load effect after one of its dependencies changed: the cleanup, then
\* the body, which returns at once unless `show` is true.
LoadEffect(runs, sh, rmLoad, rmEff, tex) ==
    IF sh THEN Append(EffectCleanup(runs), NewLaptopRun(rmLoad, rmEff, tex))
    ELSE EffectCleanup(runs)

\* Mount: LaptopDevice's effects (setLoadDevice), Laptop's mount effect, the
\* mousemove effect, the resize effect (which calls handleResize and so
\* renderFrame), then the re-render with loadDevice set, whose load effect
\* calls onModelLoad when `show` is true.
LaptopMount ==
    /\ comp = "laptop" /\ phase = "init"
    /\ phase' = "mounted"
    /\ created' = created \cup LaptopMountResources
    /\ lightsInScene' = TRUE
    /\ springSub' = {"x", "y"}
    /\ mouseListener' = MouseListenerAttached(inViewport, reduceMotion)
    /\ resizeListener' = TRUE
    /\ CallRenderFrame
    /\ view' = handleResize(view, hostSize)
    /\ lRuns' = LoadEffect(lRuns, show, reduceMotion, reduceMotion, texture)
    /\ UNCHANGED << now, throttleVars, frameCalls >>
    /\ UNCHANGED << comp, asset, hostSize, loaded, inViewport, reduceMotion, disposed, releaseLog,
                    setLoadedCalls, onLoadCalls, lateEffects, mountedRef, eRuns,
                    sceneModel, envMap, mixer, inScene, envOn, clipPlaying, raf,
                    showCutaway, clickOdd, vis, camera, drawnMixed, frameLog, loaderVisible,
                    pendingTimers, controlsOn, clickListener, ignoredClick,
                    show, texture, inGroup, springActive, springTarget >>

\* Unchanged by every Laptop action but mount, unmount and the clock.
laptopRest == << comp, phase, asset, hostSize, view, mountedRef, eRuns, sceneModel, envMap,
                  mixer, inScene, envOn, lightsInScene, clipPlaying, raf,
                  showCutaway, clickOdd, vis, camera, drawnMixed, frameLog, loaderVisible,
                  pendingTimers, controlsOn, clickListener, ignoredClick, releaseLog, now >>

\* ... and by every one of them that is not a pointer event or a spring
\* notification either.
laptopFrame == << laptopRest, frameCalls >>

\* The onLoad prop changes identity: the load effect runs again.
LaptopChangeOnLoad ==
    /\ comp = "laptop" /\ phase = "mounted"
    /\ Len(lRuns) + (IF show THEN 1 ELSE 0) <= MaxRuns
    /\ lRuns' = LoadEffect(lRuns, show, reduceMotion, reduceMotion, texture)
    /\ UNCHANGED throttleVars
    /\ UNCHANGED << laptopFrame, loaded, inViewport, reduceMotion, created,
                    disposed, setLoadedCalls, onLoadCalls, mainDrawn, drewHidden,
                    lateEffects, rendererUse, show, texture, inGroup, springSub,
                    springActive, springTarget, mouseListener, resizeListener, pipe >>

\* The show prop changes: the load effect runs again.
LaptopSetShow(v) ==
    /\ comp = "laptop" /\ phase = "mounted"
    /\ v # show
    /\ Len(lRuns) + (IF v THEN 1 ELSE 0) <= MaxRuns
    /\ show' = v
    /\ lRuns' = LoadEffect(lRuns, v, reduceMotion, reduceMotion, texture)
    /\ UNCHANGED throttleVars
    /\ UNCHANGED << laptopFrame, loaded, inViewport, reduceMotion, created,
                    disposed, setLoadedCalls, onLoadCalls, mainDrawn, drewHidden,
                    lateEffects, rendererUse, texture, inGroup, springSub,
                    springActive, springTarget, mouseListener, resizeListener, pipe >>

\* The texture prop becomes a new descriptor of the same kind, or showDelay
\* changes: the first effect builds a new `load` closure and calls
\* setLoadDevice, and the load effect runs again.
LaptopChangeLoadDeps ==
    /\ comp = "laptop" /\ phase = "mounted"
    /\ Len(lRuns) + (IF show THEN 1 ELSE 0) <= MaxRuns
    /\ lRuns' = LoadEffect(lRuns, show, reduceMotion, reduceMotion, texture)
    /\ UNCHANGED throttleVars
    /\ UNCHANGED << laptopFrame, loaded, inViewport, reduceMotion, created,
                    disposed, setLoadedCalls, onLoadCalls, mainDrawn, drewHidden,
                    lateEffects, rendererUse, show, texture, inGroup, springSub,
                    springActive, springTarget, mouseListener, resizeListener, pipe >>

\* The reduced-motion preference changes.  The mousemove effect runs again.
\* The load effect runs twice: first with the new reduceMotion and the old
\* loadDevice (whose `load` closed over the old reduceMotion), then, after the
\* first effect's setLoadDevice, with the new loadDevice.
LaptopChangeReduceMotion ==
    LET rm == ~reduceMotion
        first == LoadEffect(lRuns, show, reduceMotion, rm, texture)
    IN  /\ comp = "laptop" /\ phase = "mounted"
        /\ Len(lRuns) + (IF show THEN 2 ELSE 0) <= MaxRuns
        /\ reduceMotion' = rm
        /\ mouseListener' = MouseListenerAttached(inViewport, rm)
        /\ lastTime' = 0
        /\ pointerCalled' = FALSE
        /\ forwardedAt' = << >>
        /\ lRuns' = LoadEffect(first, show, rm, rm, texture)
        /\ UNCHANGED << laptopFrame, loaded, inViewport, created, disposed,
                        setLoadedCalls, onLoadCalls, mainDrawn, drewHidden, lateEffects,
                        rendererUse, show, texture, inGroup, springSub,
                        springActive, springTarget, resizeListener, pipe >>

\* The model load of run r resolves: the rest of `load` (the model is added to
\* modelGroup; with a Screen node and a screen texture the overlay clone is
\* added and, with a placeholder, its load awaited inside the traverse
\* callback, so that loadFullResTexture is still undefined when `load`
\* returns), then the rest of onModelLoad up to its await of
\* loadFullResTexture().  playAnimation() raises a TypeError on
\* frameNode.rotation when the model has no Frame node, and onModelLoad ends
\* there.
LaptopModelResolved(r) ==
    LET run == lRuns[r]
        hasScreen == "Screen" \in asset.nodes /\ run.tex # "none"
        plays == ~run.rmEff
        throws == plays /\ "Frame" \notin asset.nodes
        hasFull == hasScreen /\ run.tex = "plain" /\ ~throws
        draws == ~throws /\ ~hasFull /\ run.rmEff
        late == phase = "unmounted"
    IN  /\ comp = "laptop"
        /\ r \in 1..Len(lRuns)
        /\ run.model = "pending"
        /\ lRuns' = [lRuns EXCEPT ![r].model = "resolved",
                        ![r].ph = IF hasScreen /\ run.tex = "placeholder"
                                  THEN "pending" ELSE "none",
                        ![r].full = IF hasFull THEN "pending" ELSE "none",
                        ![r].anim = IF throws THEN "threw"
                                    ELSE IF plays THEN "playing" ELSE "none"]
        /\ inGroup' = inGroup \cup {r}
        /\ created' = created \cup {Res("model", r)} \cup
              (IF hasScreen THEN {Res("placeholderMaterial", r)} ELSE {})
        /\ loaded' = TRUE
        /\ setLoadedCalls' = setLoadedCalls + 1
        /\ onLoadCalls' = onLoadCalls + 1
        /\ IF draws THEN CallRenderFrame
           ELSE UNCHANGED << pipe, mainDrawn, drewHidden, rendererUse >>
        /\ lateEffects' = lateEffects \cup
              (IF late THEN {"sceneMutation", "setState"} ELSE {}) \cup
              (IF late /\ plays /\ ~throws THEN {"animation"} ELSE {}) \cup
              (IF late /\ draws THEN {"gpu"} ELSE {})
        /\ UNCHANGED throttleVars
        /\ UNCHANGED << laptopFrame, inViewport, reduceMotion, disposed, show,
                        texture, springSub, springActive, springTarget,
                        mouseListener, resizeListener >>

\* Mutant of LaptopModelRejected: `load` catches the error and returns, and
\* onModelLoad goes on to setLoaded(true) and onLoad().
LaptopModelRejectedSwallowed(r) ==
    /\ comp = "laptop"
    /\ r \in 1..Len(lRuns)
    /\ lRuns[r].model = "pending"
    /\ lRuns' = [lRuns EXCEPT ![r].model = "rejected"]
    /\ loaded' = TRUE
    /\ setLoadedCalls' = setLoadedCalls + 1
    /\ onLoadCalls' = onLoadCalls + 1
    /\ UNCHANGED throttleVars
    /\ UNCHANGED << laptopFrame, inViewport, reduceMotion, created,
                    disposed, mainDrawn, drewHidden, lateEffects, rendererUse, show,
                    texture, inGroup, springSub, springActive, springTarget,
                    mouseListener, resizeListener, pipe >>

\* The model load of run r rejects: `load` and onModelLoad reject.
LaptopModelRejected(r) ==
    /\ comp = "laptop"
    /\ r \in 1..Len(lRuns)
    /\ lRuns[r].model = "pending"
    /\ lRuns' = [lRuns EXCEPT ![r].model = "rejected"]
    /\ UNCHANGED throttleVars
    /\ UNCHANGED << laptopFrame, loaded, inViewport, reduceMotion, created,
                    disposed, setLoadedCalls, onLoadCalls, mainDrawn, drewHidden,
                    lateEffects, rendererUse, show, texture, inGroup, springSub,
                    springActive, springTarget, mouseListener, resizeListener, pipe >>

\* The placeholder texture of run r loads: applyScreenTexture(placeholder,
\* placeholderScreen.current) uploads it with renderer.initTexture.
LaptopPlaceholderResolved(r) ==
    /\ comp = "laptop"
    /\ r \in 1..Len(lRuns)
    /\ lRuns[r].ph = "pending"
    /\ lRuns' = [lRuns EXCEPT ![r].ph = "applied"]
    /\ created' = created \cup {Res("placeholderTexture", r)}
    /\ rendererUse' = (rendererUse \/ RendererDisposed)
    /\ UNCHANGED throttleVars
    /\ UNCHANGED << laptopFrame, loaded, inViewport, reduceMotion, disposed,
                    setLoadedCalls, onLoadCalls, mainDrawn, drewHidden, lateEffects, show,
                    texture, inGroup, springSub, springActive, springTarget, mouseListener,
                    resizeListener, pipe >>

\* The full-resolution texture of run r loads: applyScreenTexture(fullSize,
\* node), then animate(1, 0, ...) starts the cross-fade, then onModelLoad
\* resumes and calls renderFrame() under reduced motion.
LaptopFullResolved(r) ==
    /\ comp = "laptop"
    /\ r \in 1..Len(lRuns)
    /\ lRuns[r].full = "pending"
    /\ lRuns' = [lRuns EXCEPT ![r].full = "fading"]
    /\ created' = created \cup {Res("fullTexture", r)}
    /\ pipe' = IF lRuns[r].rmEff THEN LaptopRenderFrame(pipe) ELSE pipe
    /\ mainDrawn' = (mainDrawn \/ lRuns[r].rmEff)
    /\ drewHidden' = (drewHidden \/ (lRuns[r].rmEff /\ ~inViewport))
    /\ rendererUse' = (rendererUse \/ RendererDisposed)
    /\ UNCHANGED throttleVars
    /\ UNCHANGED << laptopFrame, loaded, inViewport, reduceMotion, disposed,
                    setLoadedCalls, onLoadCalls, lateEffects, show, texture,
                    inGroup, springSub, springActive, springTarget, mouseListener,
                    resizeListener >>

\* A texture load of run r rejects.
LaptopTextureRejected(r, which) ==
    /\ comp = "laptop"
    /\ r \in 1..Len(lRuns)
    /\ lRuns[r][which] = "pending"
    /\ lRuns' = [lRuns EXCEPT ![r][which] = "rejected"]
    /\ UNCHANGED throttleVars
    /\ UNCHANGED << laptopFrame, loaded, inViewport, reduceMotion, created,
                    disposed, setLoadedCalls, onLoadCalls, mainDrawn, drewHidden,
                    lateEffects, rendererUse, show, texture, inGroup, springSub,
                    springActive, springTarget, mouseListener, resizeListener, pipe >>

\* An update of the cross-fade started by loadFullResTexture: onUpdate sets
\* the overlay's opacity and calls renderFrame().
LaptopFadeUpdate(r) ==
    /\ comp = "laptop"
    /\ r \in 1..Len(lRuns)
    /\ lRuns[r].full = "fading"
    /\ CallRenderFrame
    /\ UNCHANGED throttleVars
    /\ UNCHANGED << laptopFrame, loaded, inViewport, reduceMotion, created,
                    disposed, setLoadedCalls, onLoadCalls, lateEffects, show,
                    texture, lRuns, inGroup, springSub, springActive, springTarget,
                    mouseListener, resizeListener >>

\* The cross-fade reaches 0 and ends.
LaptopFadeDone(r) ==
    /\ comp = "laptop"
    /\ r \in 1..Len(lRuns)
    /\ lRuns[r].full = "fading"
    /\ lRuns' = [lRuns EXCEPT ![r].full = "done"]
    /\ UNCHANGED throttleVars
    /\ UNCHANGED << laptopFrame, loaded, inViewport, reduceMotion, created,
                    disposed, setLoadedCalls, onLoadCalls, mainDrawn, drewHidden,
                    lateEffects, rendererUse, show, texture, inGroup, springSub,
                    springActive, springTarget, mouseListener, resizeListener, pipe >>

\* An update of the open animation started by playAnimation: onUpdate sets
\* the Frame node's rotation and calls renderFrame().
LaptopAnimUpdate(r) ==
    /\ comp = "laptop"
    /\ r \in 1..Len(lRuns)
    /\ lRuns[r].anim = "playing"
    /\ CallRenderFrame
    /\ UNCHANGED throttleVars
    /\ UNCHANGED << laptopFrame, loaded, inViewport, reduceMotion, created,
                    disposed, setLoadedCalls, onLoadCalls, lateEffects, show,
                    texture, lRuns, inGroup, springSub, springActive, springTarget,
                    mouseListener, resizeListener >>

\* The open animation comes to rest.
LaptopAnimDone(r) ==
    /\ comp = "laptop"
    /\ r \in 1..Len(lRuns)
    /\ lRuns[r].anim = "playing"
    /\ lRuns' = [lRuns EXCEPT ![r].anim = "done"]
    /\ UNCHANGED throttleVars
    /\ UNCHANGED << laptopFrame, loaded, inViewport, reduceMotion, created,
                    disposed, setLoadedCalls, onLoadCalls, mainDrawn, drewHidden,
                    lateEffects, rendererUse, show, texture, inGroup, springSub,
                    springActive, springTarget, mouseListener, resizeListener, pipe >>

(***************************************************************************)
(* Laptop: the pose of a loaded model.                                     *)
(***************************************************************************)
\* const targetPosition = new Vector3(0, 0, 0)
TargetPosition == << 0, 0, 0 >>
\* gltf.scene is a Group the loader creates: its position is the default one.
AuthoredPosition == << 0, 0, 0 >>
\* startRotation.x = degToRad(90) and endRotation.x = 0, in degrees.
StartRotation == 90
EndRotation == 0

\* gltf.scene.position: set to targetPosition by `load` under the reduceMotion
\* it closed over, and by playAnimation.
ModelPosition(run) ==
    IF run.rmLoad \/ run.anim \in {"playing", "done", "stopped", "threw"}
    THEN TargetPosition ELSE AuthoredPosition

\* frameNode.rotation.x once nothing moves it any more: written only by
\* playAnimation and its onUpdate; an animation that was stopped has left it
\* somewhere on the way from startRotation.
FrameRotation(run) ==
    CASE run.anim = "none" -> asset.frameRx
      [] run.anim = "done" -> EndRotation
      [] OTHER -> StartRotation

\* Run r has handed a screen texture to a model that has a Screen node.
ScreenTextured(r) ==
    /\ lRuns[r].model = "resolved"
    /\ lRuns[r].tex # "none" /\ "Screen" \in asset.nodes

\* The overlay clone of the Screen node (placeholderScreen.current) of run r is
\* a child of the Screen node's parent: it is added by the traverse callback
\* and removed nowhere.
OverlayInGraph(r) == ScreenTextured(r)

(***************************************************************************)
(* Laptop: viewport, pointer, springs, resize, unmount.                    *)
(***************************************************************************)
\* The intersection observer reports a new visibility: the mousemove effect
\* removes its listener and attaches a new one when visible without reduced
\* motion.
LaptopSetInViewport(v) ==
    /\ comp = "laptop" /\ phase = "mounted"
    /\ v # inViewport
    /\ inViewport' = v
    /\ mouseListener' = MouseListenerAttached(v, reduceMotion)
    /\ lastTime' = 0
    /\ pointerCalled' = FALSE
    /\ forwardedAt' = << >>
    /\ UNCHANGED << laptopFrame, loaded, reduceMotion, created, disposed,
                    setLoadedCalls, onLoadCalls, mainDrawn, drewHidden, lateEffects,
                    rendererUse, show, texture, lRuns, inGroup, springSub,
                    springActive, springTarget, resizeListener, pipe >>

\* The pointer moves to pos: the window dispatches mousemove to the throttled
\* onMouseMove when the listener is attached, and the handler it forwards to
\* sets the spring targets.
LaptopMouseMove(pos) ==
    /\ comp = "laptop"
    /\ phase # "init"
    /\ frameCalls' = 0
    /\ IF mouseListener
       THEN LET call == throttle(lastTime, now, TimeFrame)
            IN  /\ pointerCalled' = TRUE
                /\ lastTime' = call.lastTime
                /\ IF call.forward
                   THEN /\ springTarget' = PointerTarget(pos)
                        /\ springActive' = TRUE
                        /\ forwardedAt' = Logged(forwardedAt, now)
                   ELSE UNCHANGED << springTarget, springActive, forwardedAt >>
       ELSE UNCHANGED << springTarget, springActive, throttleVars >>
    /\ UNCHANGED << laptopRest, loaded, inViewport, reduceMotion, created,
                    disposed, setLoadedCalls, onLoadCalls, mainDrawn, drewHidden,
                    lateEffects, rendererUse, show, texture, lRuns, inGroup,
                    springSub, mouseListener, resizeListener, pipe >>

\* Mutant of ChangeListeners: the subscriptions outlive the unmount.
ChangeListenersKept(subs, axis) == 1

\* The number of listeners of the 'change' event of a rotation spring:
\* rotationX.on('change', renderFrame) and rotationY.on('change', renderFrame)
\* add one each, unsubscribeX() and unsubscribeY() remove them.
ChangeListeners(subs, axis) == IF axis \in subs THEN 1 ELSE 0

\* A rotation spring emits 'change': each of its listeners is renderFrame.
LaptopSpringChange(axis) ==
    /\ comp = "laptop"
    /\ springActive
    /\ frameCalls' = ChangeListeners(springSub, axis)
    /\ IF ChangeListeners(springSub, axis) > 0 THEN CallRenderFrame
       ELSE UNCHANGED << pipe, mainDrawn, drewHidden, rendererUse >>
    /\ UNCHANGED throttleVars
    /\ UNCHANGED << laptopRest, loaded, inViewport, reduceMotion, created,
                    disposed, setLoadedCalls, onLoadCalls, lateEffects, show,
                    texture, lRuns, inGroup, springSub, springActive, springTarget,
                    mouseListener, resizeListener >>

\* The rotation springs come to rest.
LaptopSpringRest ==
    /\ comp = "laptop"
    /\ springActive
    /\ springActive' = FALSE
    /\ UNCHANGED throttleVars
    /\ UNCHANGED << laptopFrame, loaded, inViewport, reduceMotion, created,
                    disposed, setLoadedCalls, onLoadCalls, mainDrawn, drewHidden,
                    lateEffects, rendererUse, show, texture, lRuns, inGroup,
                    springSub, springTarget, mouseListener, resizeListener, pipe >>

\* A window resize event reaches handleResize.
LaptopResize ==
    /\ comp = "laptop"
    /\ resizeListener
    /\ view' = handleResize(view, hostSize)
    /\ IF hostSize # Absent THEN CallRenderFrame
       ELSE UNCHANGED << pipe, mainDrawn, drewHidden, rendererUse >>
    /\ UNCHANGED << now, throttleVars, frameCalls >>
    /\ UNCHANGED << comp, phase, asset, hostSize, mountedRef, eRuns, sceneModel,
                    envMap, mixer, inScene, envOn, lightsInScene, clipPlaying,
                    raf, showCutaway, clickOdd, vis, camera, drawnMixed, frameLog, loaderVisible,
                    pendingTimers, controlsOn, clickListener, ignoredClick, releaseLog >>
    /\ UNCHANGED << loaded, inViewport, reduceMotion, created,
                    disposed, setLoadedCalls, onLoadCalls, lateEffects, show,
                    texture, lRuns, inGroup, springSub, springActive, springTarget,
                    mouseListener, resizeListener >>

\* Unmount: the cleanups of Laptop's mount, mousemove and resize effects and
\* of LaptopDevice's load effect.
LaptopUnmount ==
    LET st0 == [raf |-> raf, lights |-> lightsInScene, disposed |-> disposed,
                subs |-> springSub]
        st1 == ApplyRelease(LaptopReleaseSteps, st0)
    IN  /\ comp = "laptop" /\ phase = "mounted"
        /\ phase' = "unmounted"
        /\ releaseLog' = LaptopReleaseSteps
        /\ lightsInScene' = st1.lights
        /\ disposed' = st1.disposed
        /\ springSub' = st1.subs
        /\ mouseListener' = FALSE
        /\ resizeListener' = FALSE
        /\ lRuns' = EffectCleanup(lRuns)
        /\ UNCHANGED << now, throttleVars, frameCalls >>
        /\ UNCHANGED << comp, asset, hostSize, view, loaded, inViewport, reduceMotion, created,
                        setLoadedCalls, onLoadCalls, mainDrawn, drewHidden, lateEffects,
                        rendererUse, mountedRef, eRuns, sceneModel, envMap,
                        mixer, inScene, envOn, clipPlaying, raf, showCutaway, clickOdd,
                        vis, camera, drawnMixed, frameLog, loaderVisible, pendingTimers,
                        controlsOn, clickListener, ignoredClick, show, texture, inGroup,
                        springActive, springTarget, pipe >>

\* The layout gives the container a new size, or (c = Absent) React has
\* cleared the container ref; no handler of the component runs.
LaptopLayout(c) ==
    /\ comp = "laptop" /\ phase = "mounted"
    /\ c # hostSize
    /\ hostSize' = c
    /\ UNCHANGED << now, throttleVars, frameCalls >>
    /\ UNCHANGED << comp, phase, asset, view, mountedRef, eRuns, sceneModel,
                    envMap, mixer, inScene, envOn, lightsInScene, clipPlaying,
                    raf, showCutaway, clickOdd, vis, camera, drawnMixed, frameLog, loaderVisible,
                    pendingTimers, controlsOn, clickListener, ignoredClick, releaseLog >>
    /\ UNCHANGED << loaded, inViewport, reduceMotion, created, disposed,
                    setLoadedCalls, onLoadCalls, mainDrawn, drewHidden,
                    lateEffects, rendererUse, show, texture, lRuns, inGroup,
                    springSub, springActive, springTarget, mouseListener,
                    resizeListener, pipe >>

\* Time passes.
ClockAdvance(d) ==
    /\ comp = "laptop"
    /\ now + d <= ClockEnd
    /\ now' = now + d
    /\ UNCHANGED << comp, phase, asset, hostSize, view, mountedRef, eRuns, sceneModel,
                    envMap, mixer, inScene, envOn, lightsInScene, clipPlaying,
                    raf, showCutaway, clickOdd, vis, camera, drawnMixed, frameLog,
                    loaderVisible, pendingTimers, controlsOn, clickListener, ignoredClick,
                    releaseLog >>
    /\ UNCHANGED << loaded, inViewport, reduceMotion, created, disposed,
                    setLoadedCalls, onLoadCalls, mainDrawn, drewHidden,
                    lateEffects, rendererUse, show, texture, lRuns, inGroup,
                    springSub, springActive, springTarget, mouseListener,
                    resizeListener, pipe, throttleVars, frameCalls >>

LaptopNext ==
    \/ LaptopMount
    \/ LaptopChangeOnLoad
    \/ \E v \in BOOLEAN : LaptopSetShow(v)
    \/ LaptopChangeLoadDeps
    \/ LaptopChangeReduceMotion
    \/ \E r \in RunIds : LaptopModelResolved(r)
    \/ \E r \in RunIds : LaptopModelRejected(r)
    \/ \E r \in RunIds : LaptopPlaceholderResolved(r)
    \/ \E r \in RunIds : LaptopFullResolved(r)
    \/ \E r \in RunIds, which \in {"ph", "full"} : LaptopTextureRejected(r, which)
    \/ \E r \in RunIds : LaptopFadeUpdate(r)
    \/ \E r \in RunIds : LaptopFadeDone(r)
    \/ \E r \in RunIds : LaptopAnimUpdate(r)
    \/ \E r \in RunIds : LaptopAnimDone(r)
    \/ \E v \in BOOLEAN : LaptopSetInViewport(v)
    \/ \E pos \in PointerOffsets : LaptopMouseMove(pos)
    \/ \E axis \in {"x", "y"} : LaptopSpringChange(axis)
    \/ LaptopSpringRest
    \/ LaptopResize
    \/ LaptopUnmount

(***************************************************************************)
(* The specification.                                                      *)
(***************************************************************************)
\* The assets a mount may be given: the model as shipped, and models that
\* lack some of the nodes the code names.
EarthAssets ==
    {[nodes |-> s, frameRx |-> 0] :
        s \in {EarthNames, {"EarthFull", "Atmosphere"}, {"EarthPartial", "Chunk"}, {}}}

\* frameRx is the rotation.x, in degrees, the Frame node is authored with.
LaptopAssets ==
    {[nodes |-> {"Screen", "Frame"}, frameRx |-> 0],
     [nodes |-> {"Screen", "Frame"}, frameRx |-> 90],
     [nodes |-> {}, frameRx |-> 0]}

Init ==
    /\ comp \in {"earth", "laptop"}
    /\ phase = "init"
    /\ loaded = FALSE
    /\ inViewport \in BOOLEAN
    /\ reduceMotion \in (IF comp = "laptop" THEN BOOLEAN ELSE {FALSE})
    /\ created = {}
    /\ disposed = {}
    /\ releaseLog = << >>
    /\ setLoadedCalls = 0
    /\ onLoadCalls = 0
    /\ mainDrawn = FALSE
    /\ drewHidden = FALSE
    /\ lateEffects = {}
    /\ rendererUse = FALSE
    /\ hostSize = DefaultSize
    /\ view = InitialView
    /\ asset \in (IF comp = "earth" THEN EarthAssets ELSE LaptopAssets)
    /\ mountedRef = FALSE
    /\ eRuns = << >>
    /\ sceneModel = 0
    /\ envMap = 0
    /\ mixer = 0
    /\ inScene = {}
    /\ envOn = [m \in RunIds |-> 0]
    /\ lightsInScene = FALSE
    /\ clipPlaying = FALSE
    /\ raf = [q |-> << >>, cur |-> 0]
    /\ showCutaway = FALSE
    /\ clickOdd = FALSE
    /\ vis = [m \in RunIds |-> AuthoredVisibility]
    /\ camera = CameraFull
    /\ drawnMixed = FALSE
    /\ frameLog = << >>
    /\ loaderVisible = FALSE
    /\ pendingTimers = 0
    /\ controlsOn = FALSE
    /\ clickListener = FALSE
    /\ ignoredClick = FALSE
    /\ show \in (IF comp = "laptop" THEN BOOLEAN ELSE {TRUE})
    /\ texture \in (IF comp = "laptop" THEN TextureKinds ELSE {"none"})
    /\ lRuns = << >>
    /\ inGroup = {}
    /\ springSub = {}
    /\ springActive = FALSE
    /\ springTarget = RestTarget
    /\ mouseListener = FALSE
    /\ resizeListener = FALSE
    /\ pipe = InitialPipe
    /\ now = ClockStart
    /\ frameCalls = 0
    /\ lastTime = 0
    /\ pointerCalled = FALSE
    /\ forwardedAt = << >>

Next == EarthNext \/ LaptopNext

\* One mount of either scene component.
Spec == Init /\ [][Next]_vars

\* One mount of EarthProject.
EarthInit == Init /\ comp = "earth"

SpecEarth == EarthInit /\ [][EarthNext]_vars

\* One mount of EarthProject in which React runs the effects of the first
\* render and every load that is in flight completes, one way or the other.
SpecEarthLive ==
    /\ EarthInit
    /\ [][EarthNext]_vars
    /\ WF_vars(EarthMount)
    /\ WF_vars(\E i \in RunIds, which \in {"env", "model"} : EarthLoadResolved(i, which))

\* One mount of Laptop.
LaptopInit == Init /\ comp = "laptop"

SpecLaptop == LaptopInit /\ [][LaptopNext]_vars

\* One mount of either component in which the window and the container change
\* size and the resize handlers run; no load completes.
ResizeNext ==
    \/ EarthMount
    \/ \E w \in Sizes : EarthWindowResize(w)
    \/ EarthUnmount
    \/ LaptopMount
    \/ \E c \in Sizes \cup {Absent} : LaptopLayout(c)
    \/ LaptopResize
    \/ LaptopUnmount

SpecResize == Init /\ [][ResizeNext]_vars

\* One mount of Laptop in which time passes while the pointer moves; no load
\* completes.
PointerNext ==
    \/ LaptopMount
    \/ \E d \in ClockSteps : ClockAdvance(d)
    \/ \E pos \in PointerEvents : LaptopMouseMove(pos)
    \/ \E v \in BOOLEAN : LaptopSetInViewport(v)
    \/ LaptopChangeReduceMotion
    \/ \E axis \in {"x", "y"} : LaptopSpringChange(axis)
    \/ LaptopSpringRest
    \/ LaptopUnmount

SpecPointer == LaptopInit /\ [][PointerNext]_vars

(***************************************************************************)
(* Properties.                                                             *)
(***************************************************************************)
\* Run i of handleLoad has seen its background, environment and model loads
\* resolve and has run to its end.
EarthRunJoined(i) ==
    /\ eRuns[i].bg = "resolved"
    /\ eRuns[i].env = "resolved"
    /\ eRuns[i].model = "resolved"
    /\ eRuns[i].done = "done"

\* C1: a load completion that comes after the unmount is a no-op: it makes no
\* GPU call, does not mutate the scene graph or a material, sets no state and
\* starts no animation.  (Stated as in the spec; the code violates it.)
C1_LateLoadIsNoOp == lateEffects = {}

\* C2: within one mount setLoaded(true) and onLoad() are each called at most
\* once, whatever props change and whatever loads complete.  (Stated as in
\* the spec; the code violates it.)
C2_LoadedOncePerMount == setLoadedCalls <= 1 /\ onLoadCalls <= 1

\* C3: in EarthProject loaded is true, and onLoad has fired, only when a
\* handleLoad invocation has seen all three of its loads resolve (a join), the
\* scene holds a model and every model in the scene has the environment map on
\* its materials.
C3_LoadedOnlyAfterJoin ==
    (comp = "earth" /\ (loaded \/ onLoadCalls > 0 \/ setLoadedCalls > 0)) =>
        /\ \E i \in 1..Len(eRuns) : EarthRunJoined(i)
        /\ inScene # {}
        /\ \A m \in inScene : envOn[m] # 0

C3_Witness ==
    /\ comp = "earth" /\ loaded /\ onLoadCalls = 1
    /\ \E i \in 1..Len(eRuns) : EarthRunJoined(i)

\* C4 as stated: no main-camera draw is issued, by either component, before the
\* initial loads of the scene have resolved.
C4_DrawOnlyAfterLoads ==
    mainDrawn =>
        IF comp = "earth"
        THEN \E i \in 1..Len(eRuns) : EarthRunJoined(i)
        ELSE \E r \in 1..Len(lRuns) : lRuns[r].model = "resolved"

\* C4 as amended: in EarthProject every renderer.render(scene, camera) comes
\* after a handleLoad invocation has joined its three loads; Laptop has drawn
\* with the main camera as soon as it is mounted, whatever its loads do.
C4_EarthDrawOnlyAfterLoads ==
    /\ (comp = "earth" /\ mainDrawn) =>
            \E i \in 1..Len(eRuns) : EarthRunJoined(i)
    /\ (comp = "laptop" /\ phase # "init") => mainDrawn

C4_Witness == comp = "earth" /\ mainDrawn /\ Len(raf.q) = 1

\* C5: in EarthProject no animation-frame callback is pending while the canvas
\* is out of the viewport, while loaded is false, or before mount and after
\* unmount.
C5_NoFrameUnlessVisibleAndLoaded ==
    (comp = "earth" /\ (~inViewport \/ ~loaded \/ phase # "mounted")) =>
        raf.q = << >>

\* The render loop has run and the canvas has then left the viewport.
C5_Witness ==
    /\ comp = "earth" /\ phase = "mounted"
    /\ loaded /\ mainDrawn /\ ~inViewport

\* C6: in EarthProject at most one animation-frame callback is pending, and
\* while the component is mounted, loaded and in the viewport exactly one is,
\* the one whose id animationFrame.current holds.
C6_AtMostOneFramePending ==
    comp = "earth" =>
        /\ Len(raf.q) <= 1
        /\ (phase = "mounted" /\ loaded /\ inViewport) =>
                (Len(raf.q) = 1 /\ raf.cur = 1)

C6_Witness ==
    /\ comp = "earth" /\ phase = "mounted" /\ loaded /\ inViewport
    /\ Len(raf.q) = 1 /\ Len(eRuns) = 2

\* C7: after the unmount cleanup every GPU resource the instance has created
\* has been disposed.  (Stated as in the spec; the code violates it.)
C7_NothingLeaksAfterRelease ==
    phase = "unmounted" => created \subseteq disposed

\* The group of a cleanup step in the order the spec gives: cancel the frame
\* callback, lights, scene graph, render targets, renderer (0: not in a group).
SpecReleaseRank(step) ==
    CASE step = "cancelAnimationFrame" -> 1
      [] step = "removeLights" -> 2
      [] step = "cleanScene" -> 3
      [] step \in {"renderTarget.dispose", "renderTargetBlur.dispose"} -> 4
      [] step = "cleanRenderer" -> 5
      [] OTHER -> 0

\* The group of a cleanup step in the order the code follows: cancel the frame
\* callback or dispose the render targets, lights, scene graph, renderer.
CodeReleaseRank(step) ==
    CASE step \in {"cancelAnimationFrame", "renderTarget.dispose",
                   "renderTargetBlur.dispose"} -> 1
      [] step = "removeLights" -> 2
      [] step = "cleanScene" -> 3
      [] step = "cleanRenderer" -> 4
      [] OTHER -> 0

\* C8 as stated: the cleanup steps run in the order cancel frame, lights, scene
\* graph, render targets, renderer.
C8_ReleaseInSpecOrder ==
    \A a, b \in 1..Len(releaseLog) :
        (a < b /\ SpecReleaseRank(releaseLog[a]) # 0
               /\ SpecReleaseRank(releaseLog[b]) # 0) =>
            SpecReleaseRank(releaseLog[a]) <= SpecReleaseRank(releaseLog[b])

\* C8 as amended: EarthProject cancels the pending frame callback, detaches the
\* lights, disposes the scene graph and then the renderer; Laptop disposes its
\* two render targets first, then detaches the lights, disposes the scene
\* graph and then the renderer.  In both the renderer is the last GPU object
\* disposed, and after the unmount every one of these steps has run.
C8_ReleaseInCodeOrder ==
    /\ \A a, b \in 1..Len(releaseLog) :
          (a < b /\ CodeReleaseRank(releaseLog[a]) # 0
                 /\ CodeReleaseRank(releaseLog[b]) # 0) =>
              CodeReleaseRank(releaseLog[a]) <= CodeReleaseRank(releaseLog[b])
    /\ phase = "unmounted" =>
          /\ {"removeLights", "cleanScene", "cleanRenderer"} \subseteq
                {releaseLog[k] : k \in 1..Len(releaseLog)}
          /\ comp = "earth" => releaseLog[1] = "cancelAnimationFrame"
          /\ comp = "laptop" =>
                {releaseLog[1], releaseLog[2]} =
                    {"renderTarget.dispose", "renderTargetBlur.dispose"}
          /\ ~lightsInScene
          /\ RendererDisposed

C8_Witness ==
    /\ phase = "unmounted" /\ comp = "laptop"
    /\ Len(releaseLog) = 7 /\ loaded

\* C9: once the renderer has been disposed no callback of the component calls
\* a renderer method again.  (Stated as in the spec; the code violates it.)
C9_RendererUnusedAfterRelease == ~rendererUse

\* The blur draws of the last renderFrame, in order.
BlurDraws == SelectSeq(pipe.draws, LAMBDA d : d.obj = "blurPlane")

\* C10: every Laptop renderFrame issues exactly four blur draws, one after the
\* other: horizontal at radius 5, vertical at 5, horizontal at 2, vertical at 2.
C10_FourBlurDrawsInOrder ==
    (comp = "laptop" /\ pipe.draws # << >>) =>
        /\ Len(BlurDraws) = 4
        /\ \A k \in 2..5 : pipe.draws[k].obj = "blurPlane"
        /\ [k \in 1..4 |-> << BlurDraws[k].mat, BlurDraws[k].radius >>] =
              << << "horizontalBlurMaterial", 5 >>,
                 << "verticalBlurMaterial", 5 >>,
                 << "horizontalBlurMaterial", 2 >>,
                 << "verticalBlurMaterial", 2 >> >>

C10_Witness ==
    /\ comp = "laptop" /\ loaded /\ Len(pipe.draws) = 6
    /\ \E r \in 1..Len(lRuns) : lRuns[r].anim = "playing"

\* C11: in EarthProject no frame is drawn in which the named mesh groups of the
\* scene are in a mix of the full and cutaway presets, or in which the meshes
\* show one preset and the camera stands at the other.  (Stated as in the
\* spec; the code violates it.)
C11_ClickSwapsAtomically == ~drawnMixed

\* C12: in Laptop the window mousemove listener is attached exactly while the
\* component is mounted, in the viewport and reduced motion is off, and a step
\* taken while it is detached leaves the rotation spring targets unchanged.
C12_PointerListenerGated ==
    /\ [](comp = "laptop" =>
            (mouseListener <=> (phase = "mounted" /\ inViewport /\ ~reduceMotion)))
    /\ [][~mouseListener => springTarget' = springTarget]_vars

\* The pointer has turned the model, and the listener has then been removed.
C12_Witness ==
    /\ comp = "laptop" /\ phase = "mounted"
    /\ ~mouseListener /\ springTarget # RestTarget

\* Run r of onModelLoad has run to its end with reduced motion on.
SettledReduced(r) ==
    /\ lRuns[r].model = "resolved" /\ lRuns[r].rmEff /\ lRuns[r].anim = "none"
    /\ lRuns[r].full \notin {"pending"}

\* Run r of onModelLoad has played its open animation to the end.
SettledAnimated(r) ==
    lRuns[r].model = "resolved" /\ ~lRuns[r].rmEff /\ lRuns[r].anim = "done"

\* C13: the pose a Laptop model is left in is the same with and without
\* reduced motion: position (0, 0, 0) and Frame rotation.x = 0.  (Stated as
\* in the spec; the code violates it.)
C13_SameEndPose ==
    \A r \in 1..Len(lRuns) :
        ("Frame" \in asset.nodes /\ (SettledReduced(r) \/ SettledAnimated(r))) =>
            /\ ModelPosition(lRuns[r]) = TargetPosition
            /\ FrameRotation(lRuns[r]) = EndRotation

\* Some load of some handleLoad invocation has failed.
EarthLoadFailed ==
    \E i \in 1..Len(eRuns) : eRuns[i].env = "rejected" \/ eRuns[i].model = "rejected"

\* loaded is true and the composed scene has been drawn with the main camera.
EarthRevealed ==
    /\ loaded /\ mainDrawn
    /\ inScene # {} /\ \A m \in inScene : envOn[m] # 0

\* C14 as stated: if EarthProject stays mounted and its model and environment
\* loads succeed, then eventually loaded is true and the composed scene has
\* been drawn with the main camera.
C14_EventuallyDrawn ==
    <>(comp = "earth" => (phase = "unmounted" \/ EarthLoadFailed \/ EarthRevealed))

\* C14 as amended: if EarthProject stays mounted, its model and environment
\* loads succeed and its canvas is, from some moment on, in the viewport, then
\* eventually loaded is true and the composed scene has been drawn with the
\* main camera; and loaded alone follows without the viewport.
C14_EventuallyDrawnWhenVisible ==
    /\ \/ []<>(~inViewport)
       \/ <>(comp = "earth" =>
                (phase = "unmounted" \/ EarthLoadFailed \/ EarthRevealed))
    /\ <>(comp = "earth" => (phase = "unmounted" \/ EarthLoadFailed \/ loaded))

\* The scene has been revealed and drawn before any click.
C14_Witness ==
    /\ comp = "earth" /\ phase = "mounted" /\ EarthRevealed
    /\ ~showCutaway /\ OnOrbitOf(camera, CameraFull) /\ Len(eRuns) = 1

\* Some load started in this mount has failed.
SomeLoadFailed ==
    \/ EarthLoadFailed
    \/ \E r \in 1..Len(lRuns) :
          "rejected" \in {lRuns[r].model, lRuns[r].ph, lRuns[r].full}

C16_PlaceholderFailureDoesNotBlock ==
    \A r \in 1..Len(lRuns) :
        (lRuns[r].ph = "rejected" /\ lRuns[r].anim # "threw") =>
            lRuns[r].full # "none"

\* C17: in Laptop, whenever a screen texture is supplied, the full-resolution
\* load is started once the model has loaded, and once the cross-fade it
\* triggers has ended the overlay node is no longer in the scene graph.
\* (Stated as in the spec; the code violates it.)
C17_TwoPhaseCompletes ==
    \A r \in 1..Len(lRuns) :
        (ScreenTextured(r) /\ lRuns[r].anim # "threw") =>
            /\ lRuns[r].full # "none"
            /\ lRuns[r].full = "done" => ~OverlayInGraph(r)

\* C18: no load, click or animation start raises an error because a node
\* name the code refers to is absent from the asset.  (Stated as in the spec;
\* the code violates it.)
C18_MissingNodeIsNoOp ==
    \A r \in 1..Len(lRuns) : lRuns[r].anim # "threw"

\* No rotation spring is moving, no open animation is playing and no cross-fade
\* is running: nothing is left to emit an update.
NoAnimationInFlight ==
    /\ ~springActive
    /\ \A r \in 1..Len(lRuns) :
          lRuns[r].anim # "playing" /\ lRuns[r].full # "fading"

\* C19: in Laptop no animation is in flight once the component is unmounted,
\* and none is left in flight by a step in which the container leaves the
\* viewport.  (Stated as in the spec; the code violates it.)
C19_AnimationsCancelled ==
    /\ []((comp = "laptop" /\ phase = "unmounted") => NoAnimationInFlight)
    /\ [][(comp = "laptop" /\ inViewport /\ ~inViewport') => NoAnimationInFlight']_vars

\* C20 as stated: no scene component issues a main-camera draw while its
\* viewport visibility is false.
C20_NoDrawWhileHidden == ~drewHidden

\* C20 as amended: EarthProject issues no main-camera draw while its canvas is
\* out of the viewport or before loaded is true, and holds no frame callback
\* then; Laptop's renderFrame has no gate, and its resize effect has drawn as
\* soon as it is mounted, visible or not.
C20_EarthDrawsOnlyVisible ==
    /\ comp = "earth" =>
          /\ ~drewHidden
          /\ mainDrawn => (loaded /\ setLoadedCalls > 0)
          /\ ~inViewport => raf.q = << >>
    /\ (comp = "laptop" /\ phase # "init") => mainDrawn

\* EarthProject has drawn, in both presets, and is now out of the viewport.
C20_Witness ==
    /\ comp = "earth" /\ phase = "mounted" /\ mainDrawn
    /\ camera = CameraCutaway /\ ~inViewport /\ ~drewHidden

\* The load state of the scene: 0 not started (no load invocation yet), 1
\* loading (a load effect has started loads, loaded is false), 2 loaded.
LoadState ==
    IF loaded THEN 2
    ELSE IF Len(eRuns) + Len(lRuns) > 0 THEN 1
    ELSE 0

\* C21: the load state only moves forward: no step takes it from loaded to
\* loading or from loading to not started, in particular loaded never goes from
\* true to false, and a step that toggles the cutaway view leaves the load
\* state as it is.
C21_LoadStateForward ==
    [][/\ LoadState' >= LoadState
       /\ loaded => loaded'
       /\ showCutaway' # showCutaway => LoadState' = LoadState]_vars

\* A loaded EarthProject shows the cutaway view while a second load invocation
\* is still in flight.
C21_Witness ==
    /\ comp = "earth" /\ phase = "mounted" /\ loaded /\ showCutaway
    /\ \E i \in 1..Len(eRuns) : eRuns[i].done = "waiting"

\* The cleanup the mounted component would run now.
ReleaseSteps == IF comp = "earth" THEN EarthReleaseSteps ELSE LaptopReleaseSteps

\* Every object the cleanup dereferences exists.
ReleaseCompletes ==
    \A k \in 1..Len(ReleaseSteps) : ReleaseNeeds(ReleaseSteps[k]) \subseteq created

\* C22: the unmount cleanup dereferences only what the mount effect has
\* created, so it runs to its end in every mounted state, loads in flight or
\* not; after it the lights are detached, the renderer is disposed and no
\* frame callback is pending; cancelAnimationFrame applied twice gives what it
\* gives applied once, and changes nothing when no callback of that id is
\* pending, so that the two cancellations of an EarthProject unmount leave
\* what one leaves.
C22_ReleaseToleratesPartialInit ==
    /\ [](phase = "mounted" => ReleaseCompletes)
    /\ [](phase = "unmounted" =>
            /\ releaseLog = ReleaseSteps
            /\ ~lightsInScene /\ RendererDisposed
            /\ raf.q = << >>)
    /\ [](/\ cancelAnimationFrame(cancelAnimationFrame(raf)) = cancelAnimationFrame(raf)
          /\ raf.cur = 0 => cancelAnimationFrame(raf) = raf)
    /\ [][(phase = "mounted" /\ phase' = "unmounted") =>
            raf' = cancelAnimationFrame(raf)]_vars

\* EarthProject has been unmounted while both loads were in flight: no model,
\* mixer, environment map or clip action existed when the cleanup ran.
C22_Witness ==
    /\ comp = "earth" /\ phase = "unmounted"
    /\ Len(eRuns) = 1 /\ eRuns[1].model = "pending" /\ eRuns[1].env = "pending"
    /\ sceneModel = 0 /\ mixer = 0 /\ envMap = 0 /\ ~clipPlaying
    /\ releaseLog = EarthReleaseSteps

\* C23: after the unmount no handler the component registered is attached
\* (window resize and mousemove, canvas click, OrbitControls input listeners,
\* rotation-spring change subscriptions) and no timer it started is pending.
\* (Stated as in the spec; the code violates it.)
C23_UnsubscribedOnTeardown ==
    phase = "unmounted" =>
        /\ ~resizeListener /\ ~mouseListener /\ springSub = {}
        /\ ~clickListener /\ ~controlsOn
        /\ pendingTimers = 0



\* C24: the resize handlers are idempotent: applied a second time to the same
\* width and height, EarthProject's resize effects and Laptop's handleResize
\* give the renderer size and camera aspect the first application gave;
\* handleResize leaves both as they are when the container is absent; and a
\* step of the mounted component in which the size it reads is the one already
\* applied changes neither.
C24_ResizeIdempotent ==
    /\ [](\A sz \in Sizes :
            /\ EarthResizeEffect(EarthResizeEffect(view, sz), sz) =
                  EarthResizeEffect(view, sz)
            /\ handleResize(handleResize(view, sz), sz) = handleResize(view, sz))
    /\ [](handleResize(view, Absent) = view)
    /\ [][(phase = "mounted" /\ phase' = "mounted" /\ hostSize' = hostSize
             /\ (view.size = hostSize \/ hostSize = Absent)) =>
            view' = view]_vars

\* Laptop has been resized to a size with zero height, and the window resize
\* event has been handled.
C24_Witness ==
    /\ comp = "laptop" /\ phase = "mounted"
    /\ hostSize = << 480, 0 >> /\ view.size = hostSize /\ view.aspect = << 1, 0 >>
    /\ Len(pipe.draws) = 6



\* The position of call c in the last frame, 0 when the frame did not make it.
FramePos(c) ==
    IF \E k \in 1..Len(frameLog) : frameLog[k] = c
    THEN CHOOSE k \in 1..Len(frameLog) : frameLog[k] = c
    ELSE 0

\* delta, mixer, controls and draw come in this order.
UpdateThenDraw ==
    /\ 0 < FramePos("clock.getDelta")
    /\ FramePos("clock.getDelta") < FramePos("mixer.update")
    /\ FramePos("mixer.update") < FramePos("controls.update")
    /\ FramePos("controls.update") < FramePos("renderer.render")

\* C25 as stated: a frame computes the delta, advances the mixer, updates the
\* controls, draws, and only then requests the next callback.
C25_DrawThenSchedule ==
    (comp = "earth" /\ frameLog # << >>) =>
        /\ UpdateThenDraw
        /\ FramePos("renderer.render") < FramePos("requestAnimationFrame")

\* C25 as amended: a frame that draws first requests the next callback and
\* then computes the delta, advances the mixer, updates the controls and
\* draws; every main-camera draw of EarthProject is the last call of such a
\* frame.
C25_ScheduleThenDraw ==
    comp = "earth" =>
        /\ mainDrawn <=> frameLog # << >>
        /\ frameLog # << >> =>
              /\ UpdateThenDraw
              /\ FramePos("requestAnimationFrame") = 1
              /\ FramePos("renderer.render") = Len(frameLog)

\* A frame has drawn and its successor is pending.
C25_Witness ==
    /\ comp = "earth" /\ phase = "mounted" /\ loaded /\ inViewport
    /\ Len(frameLog) = 5 /\ raf.cur = 1

\* C26 as stated: the uniform of every blur pass, radius / divisor, equals
\* radius * (1 / targetResolution), and the resolution of the render targets
\* never changes.
C26_RadiusOverResolution ==
    /\ [](\A k \in 1..Len(BlurDraws) :
            BlurDraws[k].radius * pipe.resolution =
                BlurDraws[k].radius * BlurDraws[k].divisor)
    /\ [][pipe.resolution' = pipe.resolution]_vars

\* C26 as amended: the uniform of every blur pass is radius * (1 / 256), a
\* constant of blurShadow that is half the side length, 512, of the render
\* targets; the targets keep that side length for the pipeline's lifetime.
C26_RadiusOver256 ==
    /\ [](\A k \in 1..Len(BlurDraws) :
            /\ BlurDraws[k].divisor = 256
            /\ BlurDraws[k].radius \in {5, 2}
            /\ 2 * BlurDraws[k].divisor = pipe.resolution)
    /\ [](pipe.resolution = 512)
    /\ [][pipe.resolution' = pipe.resolution]_vars

\* The pointer has turned the model and the frame drawn for it has blurred
\* the shadow.
C26_Witness ==
    /\ comp = "laptop" /\ phase = "mounted"
    /\ Len(BlurDraws) = 4 /\ springActive /\ springTarget # RestTarget



\* C27: in every Laptop renderFrame each horizontal blur pass samples target A
\* and writes target B, each vertical pass samples B and writes A, no draw of
\* the frame samples the target it writes, the second pass of each radius tier
\* writes A, and A is the texture of the ground plane, sampled by the
\* main-camera draw.
C27_BlurPingPong ==
    (comp = "laptop" /\ pipe.draws # << >>) =>
        /\ \A k \in 1..Len(BlurDraws) :
              /\ BlurDraws[k].mat = "horizontalBlurMaterial" =>
                    (BlurDraws[k].src = "A" /\ BlurDraws[k].target = "B")
              /\ BlurDraws[k].mat = "verticalBlurMaterial" =>
                    (BlurDraws[k].src = "B" /\ BlurDraws[k].target = "A")
              /\ BlurDraws[k].mat \in {"horizontalBlurMaterial", "verticalBlurMaterial"}
        /\ \A k \in 1..Len(pipe.draws) : pipe.draws[k].src # pipe.draws[k].target
        /\ Len(BlurDraws) = 4
        /\ BlurDraws[2].target = "A" /\ BlurDraws[4].target = "A"
        /\ PlaneMap = "A"
        /\ pipe.draws[Len(pipe.draws)].cam = "main"
        /\ pipe.draws[Len(pipe.draws)].src = "A"
        /\ pipe.draws[Len(pipe.draws)].target = "screen"

\* A frame of the screen cross-fade has blurred the shadow.
C27_Witness ==
    /\ comp = "laptop" /\ Len(BlurDraws) = 4
    /\ \E r \in 1..Len(lRuns) : lRuns[r].full = "fading"
    /\ inViewport

\* The draws of a renderFrame that starts in the present pipeline state with
\* the scene background bg.
FrameDrawsFrom(bg) == LaptopRenderFrame([pipe EXCEPT !.background = bg]).draws

\* C28: in every Laptop renderFrame the first draw is the depth pass (the
\* scene, from the shadow camera, into target A, with the depth material as
\* override and a null background) and every blur draw comes after it; the
\* main-camera draw is issued with no override material, the screen as render
\* target, the blur plane invisible and the background the scene had when the
\* frame started, whatever that was.
C28_DepthFirstStateRestored ==
    (comp = "laptop" /\ pipe.draws # << >>) =>
        /\ pipe.draws[1] =
              [obj |-> "scene", cam |-> "shadow", target |-> "A",
               override |-> "depthMaterial", background |-> "null",
               planeVisible |-> FALSE, mat |-> "scene", src |-> "none",
               radius |-> 0, divisor |-> BlurDivisor]
        /\ \A k \in 1..Len(pipe.draws) :
              pipe.draws[k].obj = "blurPlane" =>
                  (k > 1 /\ pipe.draws[k].planeVisible
                         /\ pipe.draws[k].override = "none")
        /\ \A k \in 1..Len(pipe.draws) :
              pipe.draws[k].cam = "main" =>
                  /\ k = Len(pipe.draws)
                  /\ pipe.draws[k].override = "none"
                  /\ pipe.draws[k].target = "screen"
                  /\ ~pipe.draws[k].planeVisible
        /\ pipe.override = "none" /\ pipe.target = "screen" /\ ~pipe.planeVisible
        /\ \A bg \in {"null", "color", "texture"} :
              LET ds == FrameDrawsFrom(bg)
              IN  /\ ds[1].background = "null"
                  /\ ds[Len(ds)].cam = "main"
                  /\ ds[Len(ds)].background = bg

\* A renderFrame called under reduced motion after the model has loaded.
C28_Witness ==
    /\ comp = "laptop" /\ phase = "mounted" /\ reduceMotion /\ loaded
    /\ Len(pipe.draws) = 6 /\ pipe.draws[6].cam = "main"

\* C29: on a loaded EarthProject the displayed preset follows the parity of
\* the clicks delivered to the canvas: cutaway (showCutaway true, camera at the
\* cutaway position) after an odd number, full after an even number, however
\* clicks and re-renders interleave.  (Stated as in the spec; the code
\* violates it.)
C29_ClickParity ==
    comp = "earth" =>
        /\ clickOdd <=> showCutaway
        /\ clickOdd <=> OnOrbitOf(camera, CameraCutaway)
        /\ ~clickOdd <=> OnOrbitOf(camera, CameraFull)

\* Run r has started its open animation.
AnimationStarted(run) == run.anim \in {"playing", "done", "stopped"}

\* C30: in Laptop an open animation has been started only by a load
\* invocation whose model load has resolved and after setLoaded(true); an
\* invocation starts it at most once, in the step in which its model load
\* resolves, and never while reduced motion is requested.  (Stated as in the
\* spec; the code violates it.)
C30_OpenAnimationGated ==
    /\ [](comp = "laptop" =>
            \A r \in 1..Len(lRuns) :
                AnimationStarted(lRuns[r]) =>
                    (lRuns[r].model = "resolved" /\ loaded /\ setLoadedCalls > 0))
    /\ [][\A r \in 1..Len(lRuns) :
            (r <= Len(lRuns') /\ lRuns'[r].anim = "playing"
                              /\ lRuns[r].anim # "playing") =>
                /\ lRuns[r].anim = "none" /\ lRuns[r].model = "pending"
                /\ ~reduceMotion /\ ~reduceMotion']_vars

\* C31: within one throttle wrapper the first call is forwarded, and any two
\* forwarded calls are at least TimeFrame ms apart.
C31_ThrottleSpacing ==
    /\ pointerCalled => forwardedAt # << >>
    /\ Len(forwardedAt) = 2 => forwardedAt[2] - forwardedAt[1] >= TimeFrame

\* One wrapper has forwarded two calls, exactly TimeFrame apart, and 99 ms have
\* passed since the second.
C31_Witness ==
    /\ Len(forwardedAt) = 2
    /\ forwardedAt[2] - forwardedAt[1] = TimeFrame
    /\ lastTime = forwardedAt[2]
    /\ now = lastTime + 99
    /\ springActive

\* C32: while Laptop is mounted a change notification of rotationX or
\* rotationY makes exactly one renderFrame call, after the unmount it makes
\* none, and a pointer event makes none and leaves the drawing state alone.
C32_OneFramePerChange ==
    [][ /\ (\E axis \in {"x", "y"} : LaptopSpringChange(axis))
            => frameCalls' = (IF phase = "mounted" THEN 1 ELSE 0)
        /\ (\E pos \in PointerEvents : LaptopMouseMove(pos))
            => /\ frameCalls' = 0
               /\ UNCHANGED << pipe, mainDrawn, drewHidden, rendererUse >>
      ]_vars

\* A spring notification has called renderFrame once, in a mounted Laptop
\* whose springs are moving towards a target the pointer has set.
C32_Witness ==
    /\ phase = "mounted"
    /\ frameCalls = 1
    /\ springActive
    /\ springTarget # RestTarget
    /\ forwardedAt # << >>

\* Half the offset of coordinate c from the middle of an extent w, as a
\* fraction of w.
HalfOffset(c, w) == Rat(2 * c - w, 4 * w)

\* -1/4 <= r <= 1/4
WithinQuarter(r) == 4 * Abs(r[1]) <= r[2]

\* The throttle lets a pointer event of this instant through to onMouseMove.
Forwards == mouseListener /\ throttle(lastTime, now, TimeFrame).forward

\* C33: a forwarded pointer move sets the rotationY target to half the
\* normalized offset of clientX from the window centre and the rotationX
\* target to that of clientY, and both lie within [-1/4, 1/4] when the pointer
\* is inside the window.
C33_TargetIsHalfOffset ==
    [][ \A ev \in PointerEvents :
          (Forwards /\ LaptopMouseMove(ev))
          => /\ springTarget'[2] = HalfOffset(ev.clientX, ev.innerWidth)
             /\ springTarget'[1] = HalfOffset(ev.clientY, ev.innerHeight)
             /\ InsideViewport(ev) => \A k \in 1..2 : WithinQuarter(springTarget'[k])
      ]_vars

\* A forwarded move in the top left corner of the window has set both targets
\* to -1/4.
C33_Witness ==
    /\ springTarget = << << -1, 4 >>, << -1, 4 >> >>
    /\ forwardedAt # << >>
    /\ springActive

\* The models of the scene graph all show preset p, and the camera stands
\* where the controls can have taken it from position pos.
SceneShows(p, pos) ==
    /\ \A m \in inScene : vis[m] = p
    /\ OnOrbitOf(camera, pos)

\* C34: in a loaded EarthProject whose model has the four named nodes,
\* showCutaway is true exactly when the scene shows the cutaway preset with
\* the camera at the cutaway position, and false exactly when it shows the
\* full preset with the camera at the full position; a camera that the orbit
\* controls have turned about the target counts as being at the position.
\* (Stated as in the spec; the code violates it.)
C34_StateAgreesWithScene ==
    (comp = "earth" /\ phase = "mounted" /\ loaded /\ asset.nodes = EarthNames)
    => /\ showCutaway <=> SceneShows(EarthCutawayPreset, CameraCutaway)
       /\ ~showCutaway <=> SceneShows(EarthFullPreset, CameraFull)

\* The node visibilities loadModel sets and the camera position the mount
\* effect sets.
ValuesSetOnLoad ==
    [vis |-> SetInitialVisibility(AuthoredVisibility), camera |-> CameraFull]

\* What a click, and a second click after the re-render, leave of the model
\* and the camera.
Toggled(sc, v, cam) ==
    LET out == handleClick(sc, v, cam)
    IN  [showCutaway |-> out.showCutaway, vis |-> out.vis, camera |-> out.camera]

ToggledTwice(sc, v, cam) ==
    LET once == Toggled(sc, v, cam)
    IN  Toggled(once.showCutaway, once.vis, once.camera)

\* C35: in a loaded EarthProject two clicks with a re-render between them are
\* a round trip: from the full view they leave the node visibilities and the
\* camera position at the values set on load and showCutaway false, and from
\* the cutaway view the click that completes the round trip does.
C35_ToggleRoundTrip ==
    (comp = "earth" /\ phase = "mounted" /\ loaded)
    => LET back == IF showCutaway
                   THEN Toggled(showCutaway, vis[sceneModel], camera)
                   ELSE ToggledTwice(showCutaway, vis[sceneModel], camera)
       IN  /\ back.showCutaway = FALSE
           /\ back.vis = ValuesSetOnLoad.vis
           /\ back.camera = ValuesSetOnLoad.camera

\* The first click has acted on a model with the four named nodes, frames have
\* been drawn since, and the click that completes the round trip is due.
C35_Witness ==
    /\ comp = "earth" /\ phase = "mounted" /\ loaded
    /\ asset.nodes = EarthNames
    /\ showCutaway /\ clickOdd
    /\ vis[sceneModel] = EarthCutawayPreset
    /\ camera # CameraCutaway /\ OnOrbitOf(camera, CameraCutaway)

\* C36: a click on the canvas while loaded is false leaves showCutaway, every
\* node visibility and the camera position as they were; in particular the
\* handler does not get as far as sceneModel.current.traverse.
C36_ClickBeforeLoadIsNoOp ==
    [][ (~loaded /\ (EarthClick \/ EarthDoubleClick))
        => UNCHANGED << showCutaway, vis, camera >> ]_vars

\* A click has reached the canvas of a mounted EarthProject whose model load
\* has not resolved: loaded is false and sceneModel.current is not assigned.
C36_Witness ==
    /\ comp = "earth" /\ phase = "mounted"
    /\ ignoredClick /\ ~loaded
    /\ sceneModel = 0
    /\ \E i \in 1..Len(eRuns) : eRuns[i].model = "pending"

\* C37: the update-and-draw body of an EarthProject frame callback runs only
\* in a closure over loaded = true, such closures exist only once loaded is
\* true, and from then on the objects the body dereferences exist: renderer,
\* camera, scene, clock and controls, which the mount effect creates, and the
\* animation mixer, which loadModel creates.
C37_FrameObjectsExist ==
    comp = "earth" =>
        /\ \A k \in 1..Len(raf.q) : raf.q[k].ld => loaded
        /\ (loaded \/ frameLog # << >>)
           => /\ phase # "init"
              /\ Res("renderer", 0) \in created
              /\ mixer # 0
              /\ sceneModel # 0

\* A frame callback has run its body, and the next one is pending.
C37_Witness ==
    /\ comp = "earth" /\ phase = "mounted" /\ loaded /\ inViewport
    /\ frameLog = EarthFrameSteps
    /\ mixer # 0
    /\ raf.cur # 0 /\ raf.q[raf.cur].ld
    /\ camera # CameraFull

\* C38: once the component is unmounted no step calls one of its state
\* setters: setLoaded (counted by setLoadedCalls), setLoaderVisible (which
\* sets loaderVisible) or setShowCutaway.  (Stated as in the spec; the code
\* violates it.)
C38_NoSetterAfterUnmount ==
    [][ phase = "unmounted"
        => /\ setLoadedCalls' = setLoadedCalls
           /\ loaderVisible' = loaderVisible
           /\ showCutaway' = showCutaway ]_vars

====
